---- MODULE Spec2Model ----
(***************************************************************************)
(* The MCP router of image-workshop (functions/image-workshop-mcp): one    *)
(* Lambda process that answers JSON-RPC 2.0 requests, lists a static tool  *)
(* registry and forwards tools/call to a backend over HTTP (local mode) or *)
(* through the Lambda invoke channel (production mode).                    *)
(***************************************************************************)
EXTENDS Integers, Sequences, FiniteSets, TLC

(***************************************************************************)
(* JavaScript values.  Every value is a record tagged with its type, so    *)
(* that values of different types can be compared.  An object member whose *)
(* value is Undefined is a member JSON.stringify leaves out.               *)
(***************************************************************************)
Undefined == [type |-> "undefined"]

Null == [type |-> "null"]

Str(s) == [type |-> "string", str |-> s]

Num(n) == [type |-> "number", num |-> n]

Bool(b) == [type |-> "boolean", bool |-> b]

Obj(m) == [type |-> "object", members |-> m]

Arr(items) == [type |-> "array", items |-> items]

\* A template string `...${x}...`: the sequence of its parts, in order.
Template(parts) == [type |-> "string", parts |-> parts]

\* The string that is the JSON text of value v.
JsonText(v) == [type |-> "string", json |-> v]

EmptyObject == Obj(<<>>)

\* ToBoolean: undefined, null, "", 0 and false are falsy (a template string
\* and a JSON text are never the empty string).
Truthy(v) ==
    CASE v.type = "undefined" -> FALSE
      [] v.type = "null" -> FALSE
      [] v.type = "string" -> IF "str" \in DOMAIN v THEN v.str # "" ELSE TRUE
      [] v.type = "number" -> v.num # 0
      [] v.type = "boolean" -> v.bool
      [] OTHER -> TRUE

\* v.k for a v that is neither null nor undefined: a member of an object,
\* undefined on every primitive and on an array (no such own property).
Get(v, k) ==
    IF v.type = "object" /\ k \in DOMAIN v.members THEN v.members[k] ELSE Undefined

\* v?.k
OptGet(v, k) ==
    IF v.type \in {"undefined", "null"} THEN Undefined ELSE Get(v, k)

TypeofString(v) == v.type = "string"

\* The text of a template string with one string part: whether it contains s.
Contains(message, s) ==
    \E i \in DOMAIN message.parts : message.parts[i] = s

\* JSON.stringify of an object: members whose value is undefined are left
\* out, at every depth; array items and primitives are kept.
RECURSIVE Serialized(_)
Serialized(v) ==
    IF v.type = "object"
    THEN LET kept == {k \in DOMAIN v.members : v.members[k].type # "undefined"}
         IN  Obj([k \in kept |-> Serialized(v.members[k])])
    ELSE v

JSONStringify(v) == JsonText(Serialized(v))

\* JSON.parse: the value of a JSON text; every other string used here is
\* malformed and makes it throw a SyntaxError.
JSONParse(text) ==
    IF "json" \in DOMAIN text
    THEN [threw |-> FALSE, value |-> text.json]
    ELSE [threw |-> TRUE, error |-> [name |-> "SyntaxError",
                                     message |-> Template(<<"Unexpected token">>)]]

Has(obj, k) == obj.type = "object" /\ k \in DOMAIN obj.members

(***************************************************************************)
(* Exceptions: a thrown condition is a record with the constructor's name. *)
(***************************************************************************)
McpError(code, message) ==
    [name |-> "McpError", code |-> code, message |-> message, data |-> Undefined]

TypeError(text) == [name |-> "TypeError", message |-> Template(<<text>>)]

Error(text) == [name |-> "Error", message |-> Template(<<text>>)]

(***************************************************************************)
(* The tool registry: static data, in registry order.                      *)
(***************************************************************************)
ToolConfig(name, lambdaFunction, apiPath) ==
    [name |-> name, lambdaFunction |-> lambdaFunction, apiPath |-> apiPath]

TOOL_REGISTRY ==
    << ToolConfig("txt2img_stable_diffusion", "ToolTxt2imgStableDiffusionFunction",
                  "/tools/txt2img-stable-diffusion"),
       ToolConfig("edit_erase", "ToolEditEraseFunction", "/tools/edit-erase"),
       ToolConfig("edit_inpaint", "ToolEditInpaintFunction", "/tools/edit-inpaint"),
       ToolConfig("edit_outpaint", "ToolEditOutpaintFunction", "/tools/edit-outpaint"),
       ToolConfig("edit_search_and_replace", "ToolEditSearchAndReplaceFunction",
                  "/tools/edit-search-and-replace"),
       ToolConfig("edit_search_and_recolor", "ToolEditSearchAndRecolorFunction",
                  "/tools/edit-search-and-recolor"),
       ToolConfig("edit_remove_background", "ToolEditRemoveBackgroundFunction",
                  "/tools/edit-remove-background"),
       ToolConfig("control_sketch", "ToolControlSketchFunction", "/tools/control-sketch"),
       ToolConfig("control_structure", "ToolControlStructureFunction",
                  "/tools/control-structure"),
       ToolConfig("control_style", "ToolControlStyleFunction", "/tools/control-style"),
       ToolConfig("style_transfer", "ToolStyleTransferFunction", "/tools/style-transfer") >>

\* TOOL_REGISTRY.find((t) => t.name === name): the index of the first entry
\* with that name, 0 when there is none.
FindTool(name) ==
    LET hits == {i \in DOMAIN TOOL_REGISTRY : Str(TOOL_REGISTRY[i].name) = name}
    IN  IF hits = {} THEN 0 ELSE CHOOSE i \in hits : \A j \in hits : i <= j

SERVER_INFO == Obj([name |-> Str("image-workshop-mcp"), version |-> Str("1.0.0")])

SERVER_CAPABILITIES == Obj([tools |-> EmptyObject])

\* Mutant: the initialize result without the capabilities.
handleInitializeNoCapabilities ==
    Obj([protocolVersion |-> Str("2025-06-18"), serverInfo |-> SERVER_INFO])

handleInitialize ==
    Obj([protocolVersion |-> Str("2025-06-18"),
         capabilities |-> SERVER_CAPABILITIES,
         serverInfo |-> SERVER_INFO])

\* Mutant: the registry entries listed whole, deployment configuration
\* included.
handleToolsListWholeEntries ==
    Obj([tools |-> Arr([i \in DOMAIN TOOL_REGISTRY |->
            Obj([name |-> Str(TOOL_REGISTRY[i].name),
                 description |-> Str("description of " \o TOOL_REGISTRY[i].name),
                 inputSchema |-> Obj([type |-> Str("object"),
                                      properties |-> Obj([schemaOf |->
                                                          Str(TOOL_REGISTRY[i].name)])]),
                 lambdaFunction |-> Str(TOOL_REGISTRY[i].lambdaFunction),
                 apiPath |-> Str(TOOL_REGISTRY[i].apiPath)])])])

\* Each registry entry mapped to {name, description, inputSchema}; the
\* description and the schema are the entry's own, named after it here.
handleToolsList ==
    Obj([tools |-> Arr([i \in DOMAIN TOOL_REGISTRY |->
            Obj([name |-> Str(TOOL_REGISTRY[i].name),
                 description |-> Str("description of " \o TOOL_REGISTRY[i].name),
                 inputSchema |-> Obj([type |-> Str("object"),
                                      properties |-> Obj([schemaOf |->
                                                          Str(TOOL_REGISTRY[i].name)])])])])])

(***************************************************************************)
(* The responses the Lambda handler returns (APIGatewayProxyResult).       *)
(***************************************************************************)
headers ==
    [k \in {"Content-Type", "Access-Control-Allow-Origin",
            "Access-Control-Allow-Headers"} |->
        CASE k = "Content-Type" -> "application/json"
          [] k = "Access-Control-Allow-Origin" -> "*"
          [] k = "Access-Control-Allow-Headers" -> "Content-Type"]

ProxyResult(statusCode, hdrs, body) ==
    [statusCode |-> statusCode, headers |-> hdrs, body |-> body]

\* Mutant: the preflight response with the common headers only.
PreflightResultNoAllowMethods == ProxyResult(200, headers, Str(""))

\* httpMethod === 'OPTIONS'
PreflightResult ==
    ProxyResult(200, headers @@ ("Access-Control-Allow-Methods" :> "POST, OPTIONS"),
                Str(""))

\* Mutant: the 405 body as a plain error object, without the JSON-RPC frame.
MethodNotAllowedPlain ==
    ProxyResult(405, headers,
        JSONStringify(Obj([error |-> Obj([message |-> Template(<<"Method not allowed",
                                                                 ". Use POST.">>)])])))

\* httpMethod !== 'POST'
MethodNotAllowedResult ==
    ProxyResult(405, headers,
        JSONStringify(Obj([jsonrpc |-> Str("2.0"),
                           id |-> Null,
                           error |-> Obj([code |-> Num(-32600),
                                          message |-> Template(<<"Method not allowed",
                                                                 ". Use POST.">>)])])))

\* Mutant: the parse-error body as a plain error object.
ParseErrorResultPlain ==
    ProxyResult(400, headers,
        JSONStringify(Obj([id |-> Null,
                           error |-> Obj([code |-> Num(-32700),
                                          message |-> Template(<<"Parse error",
                                                                 ": Invalid JSON">>)])])))

\* catch: error instanceof SyntaxError
ParseErrorResult ==
    ProxyResult(400, headers,
        JSONStringify(Obj([jsonrpc |-> Str("2.0"),
                           id |-> Null,
                           error |-> Obj([code |-> Num(-32700),
                                          message |-> Template(<<"Parse error",
                                                                 ": Invalid JSON">>)])])))

\* Mutant: a protocol error answered with a client-error status.
McpErrorResultStatus400(error) ==
    ProxyResult(400, headers,
        JSONStringify(Obj([jsonrpc |-> Str("2.0"),
                           id |-> Null,
                           error |-> Obj([code |-> Num(error.code),
                                          message |-> error.message,
                                          data |-> error.data])])))

\* catch: error instanceof McpError.  The id written is the literal null.
McpErrorResult(error) ==
    ProxyResult(200, headers,
        JSONStringify(Obj([jsonrpc |-> Str("2.0"),
                           id |-> Null,
                           error |-> Obj([code |-> Num(error.code),
                                          message |-> error.message,
                                          data |-> error.data])])))

\* Mutant: every other thrown condition answered as a parse error.
InternalServerErrorAsParseError == ParseErrorResult

\* catch: every other thrown condition
InternalServerErrorResult ==
    ProxyResult(500, headers,
        JSONStringify(Obj([jsonrpc |-> Str("2.0"),
                           id |-> Null,
                           error |-> Obj([code |-> Num(-32603),
                                          message |-> Template(<<"Internal server error">>)])])))

\* Mutant: the catch block without its SyntaxError branch.
HandlerCatchNoSyntaxError(error) ==
    IF error.name = "McpError"
    THEN ProxyResult(200, headers,
            JSONStringify(Obj([jsonrpc |-> Str("2.0"),
                               id |-> Null,
                               error |-> Obj([code |-> Num(error.code),
                                              message |-> error.message,
                                              data |-> error.data])])))
    ELSE ProxyResult(500, headers,
            JSONStringify(Obj([jsonrpc |-> Str("2.0"),
                               id |-> Null,
                               error |-> Obj([code |-> Num(-32603),
                                              message |-> Template(<<"Internal server error">>)])])))

\* The catch block of handler: which response a thrown condition becomes.
HandlerCatch(error) ==
    IF error.name = "SyntaxError" THEN ParseErrorResult
    ELSE IF error.name = "McpError" THEN McpErrorResult(error)
    ELSE InternalServerErrorResult

\* Mutant: a success response that also carries an error member.
ResultResponseWithError(request, result) ==
    Obj([jsonrpc |-> Str("2.0"), id |-> Get(request, "id"), result |-> result,
         error |-> Null])

\* The response of handleMcpRequest on the success path.
ResultResponse(request, result) ==
    Obj([jsonrpc |-> Str("2.0"), id |-> Get(request, "id"), result |-> result])

\* Mutant: the error response written with id null, as the handler's own
\* catch block writes it.
ErrorResponseNullId(request, error) ==
    LET mcpError == IF error.name = "McpError" THEN error
                    ELSE McpError(-32603, error.message)
    IN  Obj([jsonrpc |-> Str("2.0"),
             id |-> Null,
             error |-> Obj([code |-> Num(mcpError.code),
                            message |-> mcpError.message,
                            data |-> mcpError.data])])

\* The catch block of handleMcpRequest: a thrown condition that is no
\* McpError becomes McpError(-32603, its message).
ErrorResponse(request, error) ==
    LET mcpError == IF error.name = "McpError" THEN error
                    ELSE McpError(-32603, error.message)
    IN  Obj([jsonrpc |-> Str("2.0"),
             id |-> Get(request, "id"),
             error |-> Obj([code |-> Num(mcpError.code),
                            message |-> mcpError.message,
                            data |-> mcpError.data])])

\* return { statusCode: 200, headers, body: JSON.stringify(response) }
OkResult(response) == ProxyResult(200, headers, JSONStringify(response))

(***************************************************************************)
(* Frame validation and dispatch.  An outcome is a returned value, a       *)
(* thrown condition, or (tools/call on a registry entry) a backend call    *)
(* that is still to be made.                                               *)
(***************************************************************************)
Return(v) == [kind |-> "return", value |-> v]

Throw(e) == [kind |-> "throw", error |-> e]

Invoke(i, args) == [kind |-> "invoke", tool |-> i, args |-> args]

\* Mutant: the method checked before the version tag.
ValidateFrameMethodFirst(request) ==
    IF request.type = "null"
    THEN Throw(TypeError("Cannot read properties of null"))
    ELSE IF ~Truthy(Get(request, "method")) \/ ~TypeofString(Get(request, "method"))
    THEN Throw(McpError(-32600, Template(<<"Missing or invalid method">>)))
    ELSE IF Get(request, "jsonrpc") # Str("2.0")
    THEN Throw(McpError(-32600, Template(<<"Invalid JSON-RPC version">>)))
    ELSE Return(request)

\* Mutant: the frame accepted whatever its version tag.
ValidateFrameNoVersion(request) ==
    IF request.type = "null"
    THEN Throw(TypeError("Cannot read properties of null"))
    ELSE IF ~Truthy(Get(request, "method")) \/ ~TypeofString(Get(request, "method"))
    THEN Throw(McpError(-32600, Template(<<"Missing or invalid method">>)))
    ELSE Return(request)

\* handler, after JSON.parse: the two frame checks, in source order.  Reading
\* a property of null throws a TypeError.
ValidateFrame(request) ==
    IF request.type = "null"
    THEN Throw(TypeError("Cannot read properties of null"))
    ELSE IF Get(request, "jsonrpc") # Str("2.0")
    THEN Throw(McpError(-32600, Template(<<"Invalid JSON-RPC version">>)))
    ELSE IF ~Truthy(Get(request, "method")) \/ ~TypeofString(Get(request, "method"))
    THEN Throw(McpError(-32600, Template(<<"Missing or invalid method">>)))
    ELSE Return(request)

\* Mutant: the lookup failure reported without the requested name.
handleToolsCallLookupNoName(params) ==
    LET i == FindTool(Get(params, "name"))
        arguments == Get(params, "arguments")
    IN  IF i = 0
        THEN Throw(McpError(-32602, Template(<<"Unknown tool">>)))
        ELSE Invoke(i, IF Truthy(arguments) THEN arguments ELSE EmptyObject)

\* handleToolsCall up to the backend call: the registry lookup.
handleToolsCallLookup(params) ==
    LET i == FindTool(Get(params, "name"))
        arguments == Get(params, "arguments")
    IN  IF i = 0
        THEN Throw(McpError(-32602, Template(<<"Unknown tool: ", Get(params, "name").str>>)))
        ELSE Invoke(i, IF Truthy(arguments) THEN arguments ELSE EmptyObject)

\* Mutant: initialize answers with the protocol version the client asked for.
DispatchNegotiated(request) ==
    LET method == Get(request, "method")
        params == Get(request, "params")
    IN  CASE method = Str("initialize") ->
                Return(IF Truthy(OptGet(params, "protocolVersion"))
                       THEN Obj([handleInitialize.members EXCEPT
                                   !.protocolVersion = Get(params, "protocolVersion")])
                       ELSE handleInitialize)
          [] method \in {Str("initialized"), Str("notifications/initialized")} ->
                Return(EmptyObject)
          [] method = Str("tools/list") -> Return(handleToolsList)
          [] method = Str("tools/call") ->
                IF ~Truthy(OptGet(params, "name")) \/ ~TypeofString(OptGet(params, "name"))
                THEN Throw(McpError(-32602, Template(<<"Missing or invalid tool name">>)))
                ELSE handleToolsCallLookup(params)
          [] method = Str("resources/list") -> Return(Obj([resources |-> Arr(<<>>)]))
          [] method = Str("prompts/list") -> Return(Obj([prompts |-> Arr(<<>>)]))
          [] method = Str("ping") -> Return(EmptyObject)
          [] OTHER -> Throw(McpError(-32601, Template(<<"Method not found: ", method.str>>)))

\* The switch of handleMcpRequest.
Dispatch(request) ==
    LET method == Get(request, "method")
        params == Get(request, "params")
    IN  CASE method = Str("initialize") -> Return(handleInitialize)
          [] method \in {Str("initialized"), Str("notifications/initialized")} ->
                Return(EmptyObject)
          [] method = Str("tools/list") -> Return(handleToolsList)
          [] method = Str("tools/call") ->
                IF ~Truthy(OptGet(params, "name")) \/ ~TypeofString(OptGet(params, "name"))
                THEN Throw(McpError(-32602, Template(<<"Missing or invalid tool name">>)))
                ELSE handleToolsCallLookup(params)
          [] method = Str("resources/list") -> Return(Obj([resources |-> Arr(<<>>)]))
          [] method = Str("prompts/list") -> Return(Obj([prompts |-> Arr(<<>>)]))
          [] method = Str("ping") -> Return(EmptyObject)
          [] OTHER -> Throw(McpError(-32601, Template(<<"Method not found: ", method.str>>)))

\* handleMcpRequest once the switch has returned or thrown.
handleMcpRequest(request, outcome) ==
    IF outcome.kind = "return"
    THEN ResultResponse(request, outcome.value)
    ELSE ErrorResponse(request, outcome.error)

(***************************************************************************)
(* The backend call of tools/call and the shaping of its result.           *)
(***************************************************************************)
\* invokeToolViaHttp: the request handed to fetch.
HttpRequest(baseUrl, tool, args) ==
    [url |-> baseUrl.str \o tool.apiPath,
     method |-> "POST",
     headers |-> [h \in {"Content-Type"} |-> Str("application/json")],
     body |-> JSONStringify(args)]

\* invokeToolViaLambda: the API-Gateway-like event for the tool Lambda.
ToolEvent(args) ==
    Obj([httpMethod |-> Str("POST"),
         body |-> JSONStringify(args),
         headers |-> Obj([h \in {"Content-Type"} |-> Str("application/json")]),
         pathParameters |-> Null,
         queryStringParameters |-> Null,
         requestContext |-> EmptyObject])

\* invokeToolViaLambda: the command handed to client.send.
InvokeCommand(functionName, args) ==
    [FunctionName |-> functionName, Payload |-> JSONStringify(ToolEvent(args))]

\* response.ok
Ok(status) == status >= 200 /\ status <= 299

\* invokeToolViaHttp once fetch has resolved with (status, body text).
invokeToolViaHttp(status, body) ==
    LET parsed == JSONParse(body)
        result == parsed.value
    IN  IF parsed.threw THEN Throw(parsed.error)
        ELSE IF ~Ok(status)
        THEN IF result.type = "null"
             THEN Throw(TypeError("Cannot read properties of null"))
             ELSE IF Truthy(Get(result, "error"))
             THEN Throw(McpError(-32603, Template(<<Get(result, "error").str>>)))
             ELSE Throw(McpError(-32603, Template(<<"HTTP ", ToString(status)>>)))
        ELSE Return(result)

\* invokeToolViaLambda once client.send has resolved with a response
\* {FunctionError, Payload}; Payload is the decoded text, or undefined.
invokeToolViaLambda(response) ==
    IF Truthy(response.FunctionError)
    THEN Throw(McpError(-32603,
               Template(<<"Tool execution failed: ",
                          IF Truthy(response.Payload) THEN response.Payload.str
                          ELSE "Unknown error">>)))
    ELSE IF ~Truthy(response.Payload)
    THEN Throw(McpError(-32603, Template(<<"Empty response from tool Lambda">>)))
    ELSE LET outer == JSONParse(response.Payload)
             lambdaResponse == outer.value
             bodyText == IF Truthy(Get(lambdaResponse, "body"))
                         THEN Get(lambdaResponse, "body")
                         ELSE JsonText(EmptyObject)
             inner == JSONParse(bodyText)
             toolResult == inner.value
             statusCode == Get(lambdaResponse, "statusCode")
         IN  IF outer.threw THEN Throw(outer.error)
             ELSE IF lambdaResponse.type = "null"
             THEN Throw(TypeError("Cannot read properties of null"))
             ELSE IF inner.threw THEN Throw(inner.error)
             ELSE IF statusCode.type = "number" /\ statusCode.num >= 400
             THEN IF toolResult.type = "null"
                  THEN Throw(TypeError("Cannot read properties of null"))
                  ELSE IF Truthy(Get(toolResult, "error"))
                  THEN Throw(McpError(-32603, Template(<<Get(toolResult, "error").str>>)))
                  ELSE Throw(McpError(-32603, Template(<<"Tool execution failed">>)))
             ELSE Return(toolResult)

\* Mutant: every payload shaped as a single text block.
FormatToolResultTextOnly(toolResult) ==
    IF toolResult.type = "null"
    THEN Throw(TypeError("Cannot read properties of null"))
    ELSE IF FALSE
    THEN Return(Obj([content |-> Arr(<<
            Obj([type |-> Str("image"),
                 data |-> Get(toolResult, "image"),
                 mimeType |-> Get(toolResult, "mime_type")]),
            Obj([type |-> Str("text"),
                 text |-> JSONStringify(Obj([seed |-> Get(toolResult, "seed"),
                                             finish_reason |-> Get(toolResult, "finish_reason"),
                                             model |-> Get(toolResult, "model")]))]) >>)]))
    ELSE Return(Obj([content |-> Arr(<<
            Obj([type |-> Str("text"), text |-> JSONStringify(toolResult)]) >>)]))

\* Mutant: the text block of an image result holds the whole payload.
FormatToolResultWholePayload(toolResult) ==
    IF toolResult.type = "null"
    THEN Throw(TypeError("Cannot read properties of null"))
    ELSE IF Truthy(Get(toolResult, "image")) /\ Truthy(Get(toolResult, "mime_type"))
    THEN Return(Obj([content |-> Arr(<<
            Obj([type |-> Str("image"),
                 data |-> Get(toolResult, "image"),
                 mimeType |-> Get(toolResult, "mime_type")]),
            Obj([type |-> Str("text"), text |-> JSONStringify(toolResult)]) >>)]))
    ELSE Return(Obj([content |-> Arr(<<
            Obj([type |-> Str("text"), text |-> JSONStringify(toolResult)]) >>)]))

\* handleToolsCall after the backend call returned toolResult.
FormatToolResult(toolResult) ==
    IF toolResult.type = "null"
    THEN Throw(TypeError("Cannot read properties of null"))
    ELSE IF Truthy(Get(toolResult, "image")) /\ Truthy(Get(toolResult, "mime_type"))
    THEN Return(Obj([content |-> Arr(<<
            Obj([type |-> Str("image"),
                 data |-> Get(toolResult, "image"),
                 mimeType |-> Get(toolResult, "mime_type")]),
            Obj([type |-> Str("text"),
                 text |-> JSONStringify(Obj([seed |-> Get(toolResult, "seed"),
                                             finish_reason |-> Get(toolResult, "finish_reason"),
                                             model |-> Get(toolResult, "model")]))]) >>)]))
    ELSE Return(Obj([content |-> Arr(<<
            Obj([type |-> Str("text"), text |-> JSONStringify(toolResult)]) >>)]))

\* Mutant: handleToolsCall without its catch; what is thrown reaches the
\* catch of handleMcpRequest as it is.
handleToolsCallNoCatch(invoked) ==
    IF invoked.kind = "return" THEN FormatToolResult(invoked.value) ELSE invoked

\* The try/catch of handleToolsCall around the backend call and the shaping:
\* an McpError is rethrown, anything else becomes McpError(-32603,
\* "Internal error: " + message).
handleToolsCall(invoked) ==
    LET shaped == IF invoked.kind = "return" THEN FormatToolResult(invoked.value)
                  ELSE invoked
    IN  IF shaped.kind = "return" THEN shaped
        ELSE IF shaped.error.name = "McpError" THEN shaped
        ELSE Throw(McpError(-32603,
                   Template(<<"Internal error: ">> \o shaped.error.message.parts)))

(***************************************************************************)
(* The config resolver as the router uses it: getValue(LAMBDA_<NAME>,      *)
(* {parameterId, defaultValue}) on the default ConfigManager instance.     *)
(***************************************************************************)
\* lambdaFunction.toUpperCase(), for the registry's function names.
ToUpperCase(s) ==
    CASE s = "ToolTxt2imgStableDiffusionFunction" -> "TOOLTXT2IMGSTABLEDIFFUSIONFUNCTION"
      [] s = "ToolEditEraseFunction" -> "TOOLEDITERASEFUNCTION"
      [] s = "ToolEditInpaintFunction" -> "TOOLEDITINPAINTFUNCTION"
      [] s = "ToolEditOutpaintFunction" -> "TOOLEDITOUTPAINTFUNCTION"
      [] s = "ToolEditSearchAndReplaceFunction" -> "TOOLEDITSEARCHANDREPLACEFUNCTION"
      [] s = "ToolEditSearchAndRecolorFunction" -> "TOOLEDITSEARCHANDRECOLORFUNCTION"
      [] s = "ToolEditRemoveBackgroundFunction" -> "TOOLEDITREMOVEBACKGROUNDFUNCTION"
      [] s = "ToolControlSketchFunction" -> "TOOLCONTROLSKETCHFUNCTION"
      [] s = "ToolControlStructureFunction" -> "TOOLCONTROLSTRUCTUREFUNCTION"
      [] s = "ToolControlStyleFunction" -> "TOOLCONTROLSTYLEFUNCTION"
      [] s = "ToolStyleTransferFunction" -> "TOOLSTYLETRANSFERFUNCTION"

EnvKey(tool) == "LAMBDA_" \o ToUpperCase(tool.lambdaFunction)

ParameterId(tool) == "/image-workshop/lambda/" \o tool.lambdaFunction

\* `${envKey}:${secretId || ''}:${parameterId || ''}`
CacheKey(envKey, secretId, parameterId) ==
    envKey \o ":" \o secretId \o ":" \o parameterId

ConfigResult(value, source) == [value |-> value, source |-> source]

\* new ConfigManager({ enableCaching })
ConfigManager(enableCaching) ==
    [secretsClient |-> Null, ssmClient |-> Null, cache |-> <<>>,
     enableCaching |-> enableCaching]

\* this.enableCaching && this.cache.has(cacheKey)
CacheHit(manager, key) == manager.enableCaching /\ key \in DOMAIN manager.cache

\* if (this.enableCaching) this.cache.set(cacheKey, result)
Store(manager, key, result) ==
    IF manager.enableCaching
    THEN [manager EXCEPT !.cache = (key :> result) @@ @]
    ELSE manager

\* getSSMClient: the SSM client, created on first use.
WithSSMClient(manager) ==
    [manager EXCEPT !.ssmClient = IF ~Truthy(@) THEN Obj([region |-> Str("us-east-1")])
                                  ELSE @]

\* Mutant: an environment variable counts when it is defined, also when empty.
EnvSetWhenDefined(envValue) == envValue # Undefined

\* envValue !== undefined && envValue !== ''
EnvSet(envValue) == envValue # Undefined /\ envValue # Str("")

\* Steps 3 and 4 of getConfig once getParameter has settled, for a call with
\* a default value: the parameter's value, else the default.
ParameterOrDefault(paramValue, defaultValue) ==
    IF Truthy(paramValue) THEN ConfigResult(paramValue, "parameter-store")
    ELSE ConfigResult(defaultValue, "env")

(***************************************************************************)
(* Inputs.                                                                 *)
(***************************************************************************)
\* Request ids are the numbers 0..MaxId, a string, null, or absent.
MaxId == 1

Verbs == {"OPTIONS", "POST", "GET", "PUT"}

Ids == {Undefined, Null, Str("abc")} \cup {Num(n) : n \in 0..MaxId}

Versions == {Undefined, Str("2.0"), Str("1.0"), Num(2)}

KnownMethods ==
    {Str("initialize"), Str("initialized"), Str("notifications/initialized"),
     Str("tools/list"), Str("tools/call"), Str("resources/list"), Str("prompts/list"),
     Str("ping")}

Methods == KnownMethods \cup {Undefined, Str(""), Num(7), Str("foo/bar")}

\* The registry entries that requests name.
CalledTools == {1}

ToolNames ==
    {Undefined, Str(""), Num(5), Str("no_such_tool")}
        \cup {Str(TOOL_REGISTRY[i].name) : i \in CalledTools}

ToolArguments == {Undefined, Obj([prompt |-> Str("a cat")])}

\* A decoded JSON object holds only the members the text has.
Envelope(version, id, method, params) ==
    Serialized(Obj([jsonrpc |-> version, id |-> id, method |-> method, params |-> params]))

CallParams ==
    {Null} \cup {Serialized(Obj([name |-> n, arguments |-> a])) :
                    n \in ToolNames, a \in ToolArguments}

InitializeParams ==
    Obj([protocolVersion |-> Str("2024-11-05"), capabilities |-> EmptyObject])

Envelopes ==
    {Envelope(v, i, m, Undefined) : v \in Versions, i \in Ids, m \in Methods}
        \cup {Envelope(Str("2.0"), i, Str("tools/call"), p) : i \in Ids, p \in CallParams}
        \cup {Envelope(Str("2.0"), i, Str("initialize"), InitializeParams) : i \in Ids}
        \cup {Envelope(Str("1.0"), Num(1), Str("tools/call"),
                        Obj([name |-> Str(TOOL_REGISTRY[1].name)]))}

MalformedBodies == {Str("not valid json"), Str("{\"jsonrpc\":")}

PostBodies ==
    {Null, Str("")} \cup MalformedBodies
        \cup {JsonText(v) : v \in Envelopes}
        \cup {JsonText(v) : v \in {Null, Num(5), Str("ping"), Bool(TRUE),
                                   Arr(<<Envelope(Str("2.0"), Num(1), Str("ping"), Undefined)>>)}}

OtherBodies ==
    {Null, Str("not valid json"),
     JsonText(Envelope(Str("2.0"), Num(1), Str("ping"), Undefined)),
     JsonText(Envelope(Str("2.0"), Num(1), Str("tools/call"),
                       Obj([name |-> Str(TOOL_REGISTRY[1].name)])))}

Events ==
    {[httpMethod |-> "POST", body |-> b] : b \in PostBodies}
        \cup {[httpMethod |-> m, body |-> b] : m \in Verbs \ {"POST"}, b \in OtherBodies}

\* What a backend answers.
Payloads ==
    {Obj([image |-> Str("BASE64"), mime_type |-> Str("image/png"), seed |-> Num(42),
          finish_reason |-> Str("SUCCESS"), model |-> Str("sd3")]),
     Obj([image |-> Str("BASE64"), mime_type |-> Str("image/png"), seed |-> Num(42)]),
     Obj([image |-> Str("BASE64"), mime_type |-> Str("image/png")]),
     Obj([image |-> Str("BASE64")]),
     Obj([image |-> Str(""), mime_type |-> Str("image/png")]),
     Obj([regions |-> Arr(<<>>)]),
     Obj([error |-> Str("Prompt is required")]),
     EmptyObject,
     Null}

BackendBodies == {Str("<html>Bad Gateway</html>")} \cup {JsonText(p) : p \in Payloads}

BackendStatuses == {200, 302, 400, 502}

\* fetch rejects, or resolves with a status and a body text.
FetchOutcomes ==
    {[rejected |-> TRUE, error |-> TypeError("fetch failed")]}
        \cup {[rejected |-> FALSE, status |-> st, body |-> b] :
                 st \in BackendStatuses, b \in BackendBodies}

LambdaResponses ==
    {Null} \cup {Serialized(Obj([statusCode |-> Num(st), body |-> b])) :
                    st \in BackendStatuses, b \in BackendBodies \cup {Undefined}}

\* client.send rejects, or resolves with {FunctionError, Payload}.
SendOutcomes ==
    {[rejected |-> TRUE, error |-> Error("AccessDeniedException")]}
        \cup {[rejected |-> FALSE, FunctionError |-> Str("Unhandled"), Payload |-> pl] :
                 pl \in {Undefined, Str("{\"errorMessage\":\"Task timed out\"}")}}
        \cup {[rejected |-> FALSE, FunctionError |-> Undefined, Payload |-> pl] :
                 pl \in {Undefined, Str("not json")}
                          \cup {JsonText(r) : r \in LambdaResponses}}

\* ssm GetParameter: a value, or null (failure, no parameter, empty value).
ParameterOutcomes == {Null, Str("fn-from-parameter-store")}

EnvValues(name) ==
    IF name = "LOCAL_API_BASE_URL"
    THEN {Undefined, Str(""), Str("http://host.docker.internal:3000")}
    ELSE {Undefined, Str(""), Str("fn-from-env")}

EnvNames == {"LOCAL_API_BASE_URL"} \cup {EnvKey(TOOL_REGISTRY[i]) : i \in CalledTools}

(***************************************************************************)
(* The process.  One invocation is in flight at a time; it runs to its     *)
(* response or to the await of an outbound call.                           *)
(***************************************************************************)
VARIABLES
    pc,            \* "idle", "awaitFetch", "awaitParameter", "awaitSend", "done"
    event,         \* the event of the invocation in flight
    resp,          \* the APIGatewayProxyResult the handler returned
    trace,         \* the steps the invocation has taken, in order
    call,          \* the tools/call that awaits its backend
    env,           \* process.env
    lambdaClient,  \* the module-level Lambda client, null until created
    config,        \* the default ConfigManager: its SSM client and its cache
                   \*   (paramValue: what getParameter answered this invocation)
    reply,         \* what the backend call of the invocation settled with
    constructed,   \* history: how many Lambda clients the process has built
    served,        \* history: the initialize and tools/list results returned
                   \*   while two invocations share the process
    other,         \* a second invocation in flight in the same process
    lookup,        \* the getConfig calls in flight on a ConfigManager, per caller
    last,          \* the getConfig call that settled last, and its outcome
    history        \* history: per cache key the value getConfig returned first
                   \*   since the last clearCache with the step of the chain that
                   \*   gave it, and whether no getConfig was invoked since

vars == <<pc, event, resp, trace, call, env, lambdaClient, config,
          reply, constructed, served, other, lookup, last, history>>

\* What the ConfigManager alone does not touch.
routerVars == <<pc, event, resp, trace, call, lambdaClient, reply, constructed, served, other>>

\* What the router does not touch.
managerVars == <<lookup, last, history>>

NoEvent == [httpMethod |-> "", body |-> Undefined]

NoResult == [statusCode |-> 0, headers |-> <<>>, body |-> Undefined]

NoCall ==
    [request |-> Undefined, tool |-> 0, args |-> Undefined, functionName |-> Undefined,
     client |-> Undefined, paramValue |-> Undefined, sent |-> Undefined]

NoReply == [via |-> "none"]

NoOther == [pc |-> "idle", tool |-> 0, client |-> Undefined]

NoLookup == [pc |-> "idle"]

NoLast == [caller |-> 0]

NoHistory == [first |-> <<>>, cleared |-> TRUE]

Init ==
    /\ pc = "idle"
    /\ event = NoEvent
    /\ resp = NoResult
    /\ trace = <<>>
    /\ call = NoCall
    /\ env \in [EnvNames -> UNION {EnvValues(n) : n \in EnvNames}]
    /\ \A n \in EnvNames : env[n] \in EnvValues(n)
    /\ lambdaClient = Null
    /\ config = ConfigManager(TRUE)
    /\ reply = NoReply
    /\ constructed = 0
    /\ served = [initialize |-> {}, toolsList |-> {}]
    /\ other = NoOther
    /\ lookup = <<NoLookup, NoLookup>>
    /\ last = NoLast
    /\ history = NoHistory

Done(result, steps) == [kind |-> "done", result |-> result, trace |-> steps]

Pending(request, invoke, steps) ==
    [kind |-> "pending", request |-> request, invoke |-> invoke, trace |-> steps]

\* Whether the switch entered handleToolsCall.
EntersToolsCall(request) ==
    /\ Get(request, "method") = Str("tools/call")
    /\ Truthy(OptGet(Get(request, "params"), "name"))
    /\ TypeofString(OptGet(Get(request, "params"), "name"))

\* Mutant: the try block without its empty-body check.
HandlePostNoEmptyCheck(e) ==
    IF FALSE
    THEN Done(HandlerCatch(McpError(-32600, Template(<<"Empty request body">>))),
              <<"event.body">>)
    ELSE LET parsed == JSONParse(e.body)
             frame == ValidateFrame(parsed.value)
             request == parsed.value
             outcome == Dispatch(request)
             steps == <<"event.body", "JSON.parse", "handleMcpRequest">>
                         \o (IF EntersToolsCall(request) THEN <<"handleToolsCall">>
                             ELSE <<>>)
         IN  IF parsed.threw
             THEN Done(HandlerCatch(parsed.error), <<"event.body", "JSON.parse">>)
             ELSE IF frame.kind = "throw"
             THEN Done(HandlerCatch(frame.error), <<"event.body", "JSON.parse">>)
             ELSE IF outcome.kind = "invoke"
             THEN Pending(request, outcome, steps)
             ELSE Done(OkResult(handleMcpRequest(request, outcome)), steps)

\* handler from the try block on, for a POST: to its response, or to the
\* backend call of a tools/call.
HandlePost(e) ==
    IF ~Truthy(e.body)
    THEN Done(HandlerCatch(McpError(-32600, Template(<<"Empty request body">>))),
              <<"event.body">>)
    ELSE LET parsed == JSONParse(e.body)
             frame == ValidateFrame(parsed.value)
             request == parsed.value
             outcome == Dispatch(request)
             steps == <<"event.body", "JSON.parse", "handleMcpRequest">>
                         \o (IF EntersToolsCall(request) THEN <<"handleToolsCall">>
                             ELSE <<>>)
         IN  IF parsed.threw
             THEN Done(HandlerCatch(parsed.error), <<"event.body", "JSON.parse">>)
             ELSE IF frame.kind = "throw"
             THEN Done(HandlerCatch(frame.error), <<"event.body", "JSON.parse">>)
             ELSE IF outcome.kind = "invoke"
             THEN Pending(request, outcome, steps)
             ELSE Done(OkResult(handleMcpRequest(request, outcome)), steps)

\* Mutant: the handler without its POST gate.
HandlerRunNoGate(e) ==
    IF e.httpMethod = "OPTIONS" THEN Done(PreflightResult, <<>>)
    ELSE HandlePost(e)

\* handler up to its response or its first backend call.
HandlerRun(e) ==
    IF e.httpMethod = "OPTIONS" THEN Done(PreflightResult, <<>>)
    ELSE IF e.httpMethod # "POST" THEN Done(MethodNotAllowedResult, <<>>)
    ELSE HandlePost(e)

\* Mutant: the mode chosen by the variable being defined, also when empty.
UseHttpWhenDefined(localBaseUrl) == localBaseUrl # Undefined

\* if (localBaseUrl): the direct HTTP strategy, else the Lambda invoke.
UseHttp(localBaseUrl) == Truthy(localBaseUrl)

\* new LambdaClient({ region }): the made-th client the process builds.
NewLambdaClient(made) == Obj([region |-> Str("us-east-1"), instance |-> Num(made)])

\* Mutant: a client built at every call.
getLambdaClientAlwaysNew(client, made) == NewLambdaClient(made + 1)

\* getLambdaClient: created on first use, reused afterwards.
getLambdaClient(client, made) ==
    IF ~Truthy(client) THEN NewLambdaClient(made + 1) ELSE client

\* const client = getLambdaClient(region): the module-level client after the
\* call, and the count of clients built.
UseLambdaClient ==
    /\ lambdaClient' = getLambdaClient(lambdaClient, constructed)
    /\ constructed' = IF lambdaClient' # lambdaClient THEN constructed + 1
                      ELSE constructed

\* invokeToolViaLambda from the resolved function name to client.send.
SendInvoke(request, invoke, functionName, paramValue, steps) ==
    /\ UseLambdaClient
    /\ call' = [request |-> request, tool |-> invoke.tool, args |-> invoke.args,
                functionName |-> functionName, client |-> lambdaClient',
                paramValue |-> paramValue,
                sent |-> InvokeCommand(functionName, invoke.args)]
    /\ trace' = steps \o (IF lambdaClient' # lambdaClient THEN <<"new LambdaClient">>
                          ELSE <<>>)
                      \o <<"lambda.send">>
    /\ pc' = "awaitSend"

\* The results of initialize and tools/list the process has returned so far,
\* with the one of the response just produced: each initialize result with
\* the params it answered, each tools/list result with the Lambda client the
\* process held.
RecordServed ==
    LET body == IF pc' = "done" /\ resp'.statusCode = 200 /\ event'.httpMethod = "POST"
                THEN JSONParse(resp'.body).value ELSE Undefined
        request == IF pc' = "done" /\ event'.httpMethod = "POST" /\ Truthy(event'.body)
                      /\ ~JSONParse(event'.body).threw
                   THEN JSONParse(event'.body).value ELSE Undefined
        method == OptGet(request, "method")
        returned == body # Undefined /\ Get(body, "result") # Undefined
    IN  served' =
            [initialize |-> served.initialize \cup
                 (IF returned /\ method = Str("initialize")
                  THEN {[params |-> Get(request, "params"),
                         result |-> Get(body, "result")]}
                  ELSE {}),
             toolsList |-> served.toolsList \cup
                 (IF returned /\ method = Str("tools/list")
                  THEN {[client |-> lambdaClient', result |-> Get(body, "result")]}
                  ELSE {})]

\* The handler is invoked with one of the events E.
HandlerOn(E) ==
    /\ pc = "idle"
    /\ \E e \in E :
        LET run == HandlerRun(e)
            tool == TOOL_REGISTRY[run.invoke.tool]
            key == CacheKey(EnvKey(tool), "", ParameterId(tool))
            envValue == env[EnvKey(tool)]
        IN  /\ event' = e
            /\ UNCHANGED <<env, reply>>
            /\ IF run.kind = "done"
               THEN /\ pc' = "done"
                    /\ resp' = run.result
                    /\ trace' = run.trace
                    /\ UNCHANGED <<call, lambdaClient, config, constructed>>
               ELSE IF UseHttp(env["LOCAL_API_BASE_URL"])
               THEN \* invokeToolViaHttp: fetch(`${baseUrl}${tool.apiPath}`)
                    /\ pc' = "awaitFetch"
                    /\ resp' = NoResult
                    /\ trace' = run.trace \o <<"fetch">>
                    /\ call' = [request |-> run.request, tool |-> run.invoke.tool,
                                args |-> run.invoke.args, functionName |-> Undefined,
                                client |-> Undefined, paramValue |-> Undefined,
                                sent |-> HttpRequest(env["LOCAL_API_BASE_URL"], tool,
                                                     run.invoke.args)]
                    /\ UNCHANGED <<lambdaClient, config, constructed>>
               ELSE IF CacheHit(config, key)
               THEN \* getConfig: cache hit
                    /\ resp' = NoResult
                    /\ UNCHANGED config
                    /\ SendInvoke(run.request, run.invoke, config.cache[key].value, Undefined,
                                  run.trace \o <<"getValue">>)
               ELSE IF EnvSet(envValue)
               THEN \* getConfig: the environment variable
                    /\ resp' = NoResult
                    /\ config' = Store(config, key, ConfigResult(envValue, "env"))
                    /\ SendInvoke(run.request, run.invoke, envValue, Undefined,
                                  run.trace \o <<"getValue">>)
               ELSE \* getConfig: getParameter on the parameter store
                    /\ pc' = "awaitParameter"
                    /\ resp' = NoResult
                    /\ trace' = run.trace \o <<"getValue", "ssm.send">>
                    /\ call' = [request |-> run.request, tool |-> run.invoke.tool,
                                args |-> run.invoke.args, functionName |-> Undefined,
                                client |-> Undefined, paramValue |-> Undefined,
                                sent |-> Undefined]
                    /\ config' = WithSSMClient(config)
                    /\ UNCHANGED <<lambdaClient, constructed>>

\* The handler is invoked with an event.
Handler ==
    /\ HandlerOn(Events)
    /\ UNCHANGED <<served, other, managerVars>>

\* getParameter resolves: the parameter's value, else the default value (the
\* registry's function name); then the invoke is sent.
GetParameterReply ==
    /\ pc = "awaitParameter"
    /\ \E paramValue \in ParameterOutcomes :
        LET tool == TOOL_REGISTRY[call.tool]
            key == CacheKey(EnvKey(tool), "", ParameterId(tool))
            result == ParameterOrDefault(paramValue, Str(tool.lambdaFunction))
        IN  /\ config' = Store(config, key, result)
            /\ SendInvoke(call.request, call, result.value, paramValue, trace)
    /\ UNCHANGED <<event, resp, env, reply, served, other, managerVars>>

\* Mutant: the dispatch without its catch blocks; what the backend call
\* throws reaches the catch block of handler.
ToolsCallResultUncaught(request, invoked) ==
    IF invoked.kind = "throw" THEN HandlerCatch(invoked.error)
    ELSE OkResult(handleMcpRequest(request, handleToolsCall(invoked)))

\* The response of a tools/call whose backend call has settled.
ToolsCallResult(request, invoked) ==
    OkResult(handleMcpRequest(request, handleToolsCall(invoked)))

\* fetch settles.
FetchReply ==
    /\ pc = "awaitFetch"
    /\ \E o \in FetchOutcomes :
        /\ resp' = ToolsCallResult(call.request,
                       IF o.rejected THEN Throw(o.error)
                       ELSE invokeToolViaHttp(o.status, o.body))
        /\ reply' = [via |-> "fetch", outcome |-> o]
    /\ pc' = "done"
    /\ call' = NoCall
    /\ UNCHANGED <<event, trace, env, lambdaClient, config, constructed, served, other,
                   managerVars>>

\* client.send settles.
SendReply ==
    /\ pc = "awaitSend"
    /\ \E o \in SendOutcomes :
        /\ resp' = ToolsCallResult(call.request,
                       IF o.rejected THEN Throw(o.error)
                       ELSE invokeToolViaLambda(o))
        /\ reply' = [via |-> "lambda", outcome |-> o]
    /\ pc' = "done"
    /\ call' = NoCall
    /\ UNCHANGED <<event, trace, env, lambdaClient, config, constructed, served, other,
                   managerVars>>

\* The response is delivered; the process waits for its next event.
Complete ==
    /\ pc = "done"
    /\ pc' = "idle"
    /\ event' = NoEvent
    /\ resp' = NoResult
    /\ trace' = <<>>
    /\ reply' = NoReply
    /\ UNCHANGED <<call, env, lambdaClient, config, constructed, served, other,
                   managerVars>>

Next == Handler \/ GetParameterReply \/ FetchReply \/ SendReply \/ Complete

Spec == Init /\ [][Next]_vars

(***************************************************************************)
(* Two invocations in flight in one process.  The awaits of an invocation  *)
(* are the only points where another one runs; the second invocation is a  *)
(* tools/call on the Lambda strategy, followed through its use of the      *)
(* module-level client and of the configuration cache.                     *)
(***************************************************************************)
ConcurrentEvents ==
    {[httpMethod |-> "OPTIONS", body |-> Null], [httpMethod |-> "GET", body |-> Null],
     [httpMethod |-> "POST", body |-> Str("not valid json")],
     [httpMethod |-> "POST",
      body |-> JsonText(Envelope(Str("1.0"), Num(1), Str("tools/call"),
                                 Obj([name |-> Str(TOOL_REGISTRY[1].name)])))]}
        \cup {[httpMethod |-> "POST", body |-> JsonText(v)] :
                 v \in {Envelope(Str("2.0"), Num(1), m, Undefined) :
                           m \in {Str("initialize"), Str("tools/list"), Str("ping")}}
                        \cup {Envelope(Str("2.0"), Num(1), Str("initialize"), InitializeParams)}
                        \cup {Envelope(Str("2.0"), Num(1), Str("tools/call"),
                                       Obj([name |-> n])) :
                                 n \in {Str("no_such_tool"), Str(TOOL_REGISTRY[1].name)}}}

HandlerConcurrent ==
    /\ HandlerOn(ConcurrentEvents)
    /\ RecordServed
    /\ UNCHANGED <<other, managerVars>>

\* The second invocation sends its invoke with the client getLambdaClient
\* returns.
OtherSendInvoke(i) ==
    /\ UseLambdaClient
    /\ other' = [pc |-> "awaitSend", tool |-> i, client |-> lambdaClient']

\* The second invocation enters invokeToolViaLambda.
OtherHandler ==
    /\ other.pc = "idle"
    /\ ~UseHttp(env["LOCAL_API_BASE_URL"])
    /\ \E i \in CalledTools :
        LET tool == TOOL_REGISTRY[i]
            key == CacheKey(EnvKey(tool), "", ParameterId(tool))
            envValue == env[EnvKey(tool)]
        IN  IF CacheHit(config, key)
            THEN /\ UNCHANGED config
                 /\ OtherSendInvoke(i)
            ELSE IF EnvSet(envValue)
            THEN /\ config' = Store(config, key, ConfigResult(envValue, "env"))
                 /\ OtherSendInvoke(i)
            ELSE /\ other' = [pc |-> "awaitParameter", tool |-> i, client |-> Undefined]
                 /\ config' = WithSSMClient(config)
                 /\ UNCHANGED <<lambdaClient, constructed>>
    /\ UNCHANGED <<pc, event, resp, trace, call, env, reply, served, managerVars>>

\* getParameter of the second invocation resolves.
OtherGetParameterReply ==
    /\ other.pc = "awaitParameter"
    /\ \E paramValue \in ParameterOutcomes :
        LET tool == TOOL_REGISTRY[other.tool]
            key == CacheKey(EnvKey(tool), "", ParameterId(tool))
            result == ParameterOrDefault(paramValue, Str(tool.lambdaFunction))
        IN  /\ config' = Store(config, key, result)
            /\ OtherSendInvoke(other.tool)
    /\ UNCHANGED <<pc, event, resp, trace, call, env, reply, served, managerVars>>

\* client.send of the second invocation settles and it returns.
OtherSendReply ==
    /\ other.pc = "awaitSend"
    /\ other' = NoOther
    /\ UNCHANGED <<pc, event, resp, trace, call, env, lambdaClient, config,
                   reply, constructed, served, managerVars>>

NextConcurrent ==
    \/ HandlerConcurrent
    \/ GetParameterReply
    \/ FetchReply
    \/ SendReply
    \/ Complete
    \/ OtherHandler
    \/ OtherGetParameterReply
    \/ OtherSendReply

SpecConcurrent == Init /\ [][NextConcurrent]_vars

(***************************************************************************)
(* The ConfigManager on its own: callers invoke getConfig with different   *)
(* options while the environment changes and the cache is cleared.  A call *)
(* that has to ask Secrets Manager or the parameter store awaits, and      *)
(* another caller's call runs meanwhile.                                   *)
(***************************************************************************)
Callers == {1, 2}

TEST_KEY == "TEST_KEY"

ConfigEnvValues == {Undefined, Str("initial-value"), Str("changed-value")}

Options(secretId, parameterId, defaultValue, required) ==
    [secretId |-> secretId, parameterId |-> parameterId,
     defaultValue |-> defaultValue, required |-> required]

ConfigOptions ==
    {Options(Undefined, Str("/test/param"), Undefined, Undefined),
     Options(Undefined, Str("/test/param"), Str("default-value"), Undefined),
     Options(Undefined, Str("/test/param"), Str("other-default"), Undefined),
     Options(Str("test/secret"), Str("/test/param"), Undefined, Bool(TRUE))}

\* getSecret: the secret string, or null (failure, no secret string).
SecretOutcomes ==
    {Null, Str("plain-secret"), JsonText(Obj([TEST_KEY |-> Str("keyed-secret")]))}

\* options?.secretId || ''
OrEmpty(v) == IF Truthy(v) THEN v.str ELSE ""

OptionsKey(envKey, options) ==
    CacheKey(envKey, OrEmpty(options.secretId), OrEmpty(options.parameterId))

\* getSecretsClient: the Secrets Manager client, created on first use.
WithSecretsClient(manager) ==
    [manager EXCEPT !.secretsClient =
        IF ~Truthy(@) THEN Obj([region |-> Str("us-east-1")]) ELSE @]

\* Step 2 of getConfig for a secret string: the member named envKey of a JSON
\* object, else the secret as it is.
SecretResult(secretValue, envKey) ==
    LET parsed == JSONParse(secretValue)
        value == IF parsed.threw THEN secretValue
                 ELSE IF parsed.value.type \in {"object", "array"}
                         /\ Truthy(Get(parsed.value, envKey))
                 THEN Get(parsed.value, envKey)
                 ELSE secretValue
    IN  ConfigResult(value, "secrets-manager")

\* Steps 4 and 5 of getConfig: the default value, else the error.
DefaultOrThrow(envKey, options) ==
    IF options.defaultValue # Undefined
    THEN Return(ConfigResult(options.defaultValue, "env"))
    ELSE IF Truthy(options.required)
    THEN Throw([name |-> "Error",
                message |-> Template(
                    <<"Required configuration not found: ", envKey, ". ",
                      "Checked: ENV[", envKey, "]">>
                    \o (IF Truthy(options.secretId)
                        THEN <<", SecretsManager[", options.secretId.str, "]">>
                        ELSE <<>>)
                    \o (IF Truthy(options.parameterId)
                        THEN <<", ParameterStore[", options.parameterId.str, "]">>
                        ELSE <<>>))])
    ELSE Throw([name |-> "Error",
                message |-> Template(<<"Configuration not found: ", envKey>>)])

InitConfig ==
    /\ pc = "idle"
    /\ event = NoEvent
    /\ resp = NoResult
    /\ trace = <<>>
    /\ call = NoCall
    /\ lambdaClient = Null
    /\ reply = NoReply
    /\ constructed = 0
    /\ served = [initialize |-> {}, toolsList |-> {}]
    /\ other = NoOther
    /\ env \in [{TEST_KEY} -> ConfigEnvValues]
    /\ \E enableCaching \in BOOLEAN : config = ConfigManager(enableCaching)
    /\ lookup = <<NoLookup, NoLookup>>
    /\ last = NoLast
    /\ history = NoHistory

\* The getConfig of caller c settles at a step of the chain ("env",
\* "secrets-manager", "parameter-store", "default") with a result or an error:
\* a result is stored when caching is enabled.
Settle(c, options, outcome, step) ==
    LET key == OptionsKey(TEST_KEY, options)
    IN  /\ config' = IF outcome.kind = "return" THEN Store(config, key, outcome.value)
                     ELSE config
        /\ last' = [caller |-> c, options |-> options, outcome |-> outcome]
        /\ history' = [first |-> IF outcome.kind = "return" /\ key \notin DOMAIN history.first
                                 THEN (key :> [value |-> outcome.value.value,
                                               step |-> step]) @@ history.first
                                 ELSE history.first,
                       cleared |-> FALSE]
        /\ lookup' = [lookup EXCEPT ![c] = NoLookup]

\* The getConfig of caller c awaits Secrets Manager or the parameter store.
Await(c, options, stage, manager) ==
    /\ lookup' = [lookup EXCEPT ![c] = [pc |-> stage, options |-> options]]
    /\ config' = manager
    /\ history' = [history EXCEPT !.cleared = FALSE]
    /\ UNCHANGED last

\* Caller c invokes getConfig(TEST_KEY, options): up to its return, its throw
\* or its first await.
GetConfig(c) ==
    /\ lookup[c].pc = "idle"
    /\ \E options \in ConfigOptions :
        LET key == OptionsKey(TEST_KEY, options)
            envValue == env[TEST_KEY]
        IN  IF CacheHit(config, key)
            THEN /\ last' = [caller |-> c, options |-> options,
                             outcome |-> Return(config.cache[key])]
                 /\ history' = [history EXCEPT !.cleared = FALSE]
                 /\ UNCHANGED <<config, lookup>>
            ELSE IF EnvSet(envValue)
            THEN Settle(c, options, Return(ConfigResult(envValue, "env")), "env")
            ELSE IF Truthy(options.secretId)
            THEN Await(c, options, "awaitSecret", WithSecretsClient(config))
            ELSE IF Truthy(options.parameterId)
            THEN Await(c, options, "awaitParameter", WithSSMClient(config))
            ELSE Settle(c, options, DefaultOrThrow(TEST_KEY, options), "default")
    /\ UNCHANGED <<env, routerVars>>

\* getSecret of caller c's call settles.
SecretSettles(c) ==
    /\ lookup[c].pc = "awaitSecret"
    /\ \E secretValue \in SecretOutcomes :
        LET options == lookup[c].options
        IN  IF Truthy(secretValue)
            THEN Settle(c, options, Return(SecretResult(secretValue, TEST_KEY)),
                        "secrets-manager")
            ELSE IF Truthy(options.parameterId)
            THEN Await(c, options, "awaitParameter", WithSSMClient(config))
            ELSE Settle(c, options, DefaultOrThrow(TEST_KEY, options), "default")
    /\ UNCHANGED <<env, routerVars>>

\* getParameter of caller c's call settles.
ParameterSettles(c) ==
    /\ lookup[c].pc = "awaitParameter"
    /\ \E paramValue \in ParameterOutcomes :
        LET options == lookup[c].options
        IN  IF Truthy(paramValue)
            THEN Settle(c, options, Return(ConfigResult(paramValue, "parameter-store")),
                        "parameter-store")
            ELSE Settle(c, options, DefaultOrThrow(TEST_KEY, options), "default")
    /\ UNCHANGED <<env, routerVars>>

\* clearCache()
ClearCache ==
    /\ config' = [config EXCEPT !.cache = <<>>]
    /\ history' = [first |-> <<>>, cleared |-> TRUE]
    /\ UNCHANGED <<env, lookup, last, routerVars>>

\* process.env.TEST_KEY is assigned or deleted.
SetEnv ==
    /\ \E value \in ConfigEnvValues \ {env[TEST_KEY]} :
        env' = [env EXCEPT ![TEST_KEY] = value]
    /\ UNCHANGED <<config, lookup, last, history, routerVars>>

NextConfig ==
    \/ \E c \in Callers : GetConfig(c)
    \/ \E c \in Callers : SecretSettles(c)
    \/ \E c \in Callers : ParameterSettles(c)
    \/ ClearCache
    \/ SetEnv

SpecConfig == InitConfig /\ [][NextConfig]_vars

(***************************************************************************)
(* The txt2img tool Lambda (tool-txt2img-stable-diffusion), the backend a  *)
(* tools/call on txt2img_stable_diffusion reaches.  Its invocation uses    *)
(* the variables of a Lambda invocation: pc, event, resp, trace, call (the *)
(* validated request and what is sent upstream) and reply (what the        *)
(* upstream image API settled with).                                       *)
(***************************************************************************)
\* The text of a message: its parts, joined.
RECURSIVE JoinParts(_)
JoinParts(parts) ==
    IF parts = <<>> THEN "" ELSE Head(parts) \o JoinParts(Tail(parts))

\* String.prototype.includes
Includes(text, needle) ==
    \E i \in 1..(Len(text) - Len(needle) + 1) :
        SubSeq(text, i, i + Len(needle) - 1) = needle

\* String.prototype.trim, for spaces.
RECURSIVE Trim(_)
Trim(s) ==
    IF s = "" THEN ""
    ELSE IF SubSeq(s, 1, 1) = " " THEN Trim(SubSeq(s, 2, Len(s)))
    ELSE IF SubSeq(s, Len(s), Len(s)) = " " THEN Trim(SubSeq(s, 1, Len(s) - 1))
    ELSE s

\* v ?? d
OrElse(v, d) == IF v.type \in {"undefined", "null"} THEN d ELSE v

\* parseRequest: the check of width and of height.
InvalidDimension(v) ==
    /\ v # Undefined
    /\ \/ v.type # "number"
       \/ v.num < 512
       \/ v.num > 2048
       \/ v.num % 64 # 0

\* parseRequest: the check of steps.
InvalidSteps(v) ==
    /\ v # Undefined
    /\ (v.type # "number" \/ v.num < 10 \/ v.num > 50)

\* parseRequest: the check of cfg_scale.
InvalidCfgScale(v) ==
    /\ v # Undefined
    /\ (v.type # "number" \/ v.num < 1 \/ v.num > 35)

\* parseRequest: the validated request with its defaults, or the error.
parseRequest(body) ==
    IF ~Truthy(body) THEN Throw(Error("Request body is required"))
    ELSE LET decoded == JSONParse(body)
             parsed == decoded.value
             prompt == Get(parsed, "prompt")
         IN  IF decoded.threw THEN Throw(decoded.error)
             ELSE IF parsed.type = "null"
             THEN Throw(TypeError("Cannot read properties of null (reading 'prompt')"))
             ELSE IF ~Truthy(prompt) \/ ~TypeofString(prompt) \/ Trim(prompt.str) = ""
             THEN Throw(Error("prompt is required and must be a non-empty string"))
             ELSE IF InvalidDimension(Get(parsed, "width"))
             THEN Throw(Error(
                     "width must be a number between 512 and 2048, and a multiple of 64"))
             ELSE IF InvalidDimension(Get(parsed, "height"))
             THEN Throw(Error(
                     "height must be a number between 512 and 2048, and a multiple of 64"))
             ELSE IF InvalidSteps(Get(parsed, "steps"))
             THEN Throw(Error("steps must be a number between 10 and 50"))
             ELSE IF InvalidCfgScale(Get(parsed, "cfg_scale"))
             THEN Throw(Error("cfg_scale must be a number between 1 and 35"))
             ELSE Return(Obj([prompt |-> Str(Trim(prompt.str)),
                              negative_prompt |->
                                  IF Get(parsed, "negative_prompt").type = "string"
                                  THEN Str(Trim(Get(parsed, "negative_prompt").str))
                                  ELSE Undefined,
                              width |-> OrElse(Get(parsed, "width"), Num(1024)),
                              height |-> OrElse(Get(parsed, "height"), Num(1024)),
                              steps |-> OrElse(Get(parsed, "steps"), Num(30)),
                              cfg_scale |-> OrElse(Get(parsed, "cfg_scale"), Num(7)),
                              seed |-> Get(parsed, "seed"),
                              style_preset |-> Get(parsed, "style_preset"),
                              output_format |->
                                  OrElse(Get(parsed, "output_format"), Str("png"))]))

\* generateImage: the payload posted to the upstream image API.
StabilityPayload(request) ==
    Serialized(Obj([
        text_prompts |->
            Arr(<<Obj([text |-> Get(request, "prompt"), weight |-> Num(1)])>>
                \o (IF Truthy(Get(request, "negative_prompt"))
                    THEN <<Obj([text |-> Get(request, "negative_prompt"),
                                weight |-> Num(-1)])>>
                    ELSE <<>>)),
        cfg_scale |-> Get(request, "cfg_scale"),
        height |-> Get(request, "height"),
        width |-> Get(request, "width"),
        steps |-> Get(request, "steps"),
        samples |-> Num(1),
        seed |-> Get(request, "seed"),
        style_preset |-> IF Truthy(Get(request, "style_preset"))
                         THEN Get(request, "style_preset") ELSE Undefined]))

\* generateImage once fetch has resolved with (status, body text).
generateImage(request, model, response) ==
    IF ~Ok(response.status)
    THEN Throw(Error("Stability AI API error: " \o ToString(response.status)
                        \o " - " \o response.body.str))
    ELSE LET decoded == JSONParse(response.body)
             artifacts == Get(decoded.value, "artifacts")
         IN  IF decoded.threw THEN Throw(decoded.error)
             ELSE IF ~Truthy(artifacts) \/ Len(artifacts.items) = 0
             THEN Throw(Error("No image generated"))
             ELSE Return(Obj([image |-> Get(artifacts.items[1], "base64"),
                              mime_type |-> Str("image/" \o Get(request, "output_format").str),
                              seed |-> Get(artifacts.items[1], "seed"),
                              finish_reason |-> Get(artifacts.items[1], "finishReason"),
                              model |-> model]))

\* handler: the CORS headers of every response.
Txt2ImgHeaders ==
    ("Content-Type" :> "application/json")
        @@ ("Access-Control-Allow-Origin" :> "*")
        @@ ("Access-Control-Allow-Headers" :> "Content-Type")

\* context.awsRequestId
awsRequestId == "test-request-id"

\* handler: the response to an OPTIONS request.
Txt2ImgPreflight ==
    ProxyResult(200, Txt2ImgHeaders @@ ("Access-Control-Allow-Methods" :> "POST, OPTIONS"),
                Str(""))

\* handler: the catch block, which picks the status from the message text.
Txt2ImgCatch(error) ==
    LET message == JoinParts(error.message.parts)
        statusCode == IF Includes(message, "required") \/ Includes(message, "must be")
                      THEN 400
                      ELSE IF Includes(message, "API error") THEN 502
                      ELSE 500
    IN  ProxyResult(statusCode, Txt2ImgHeaders,
            JSONStringify(Obj([error |-> Str(message), requestId |-> Str(awsRequestId)])))

\* A request body with these members (undefined: the member is left out).
Txt2ImgBody(prompt, width, height, steps, cfg_scale) ==
    JSONStringify(Obj([prompt |-> prompt, width |-> width, height |-> height,
                       steps |-> steps, cfg_scale |-> cfg_scale]))

Txt2ImgBodies ==
    {Null, Str(""), Str("not valid json"), JsonText(Null)}
        \cup {Txt2ImgBody(p, w, h, s, c) :
                 p \in {Undefined, Str(""), Str("   "), Num(5), Str(" a test image ")},
                 w \in {Undefined, Num(448), Num(512), Num(1000), Num(2048), Num(2112),
                        Str("1024")},
                 h \in {Undefined, Num(1024), Num(1000)},
                 s \in {Undefined, Num(9), Num(10), Num(50), Num(51)},
                 c \in {Undefined, Num(0), Num(1), Num(35), Num(36)}}

Txt2ImgEvents ==
    {[httpMethod |-> "OPTIONS", body |-> Null]}
        \cup {[httpMethod |-> "POST", body |-> b] : b \in Txt2ImgBodies}

\* getKnownConfig('STABILITY_API_KEY', {required: true}): the key, or the
\* error of getConfig when neither the environment nor the secret has it.
ApiKeyOutcomes ==
    {Return(Str("sk-test")),
     DefaultOrThrow("STABILITY_API_KEY",
                    Options(Str("image-workshop/stability-api-key"), Undefined, Undefined,
                            Bool(TRUE)))}

\* getValue('STABILITY_MODEL', {parameterId, defaultValue}): the parameter's
\* value, else the default.
StabilityModels == {Str("stable-diffusion-xl-1024-v1-0"), Str("stable-diffusion-v1-6")}

\* What the upstream image API answers: status and body text.
UpstreamErrorTexts ==
    {"Rate limit exceeded",
     "{\"message\":\"text_prompts: is required\"}",
     "{\"message\":\"height and width must be specified in increments of 64\"}"}

UpstreamReplies ==
    {[rejected |-> TRUE, error |-> TypeError("fetch failed")]}
        \cup {[rejected |-> FALSE, status |-> st, body |-> Str(t)] :
                 st \in {400, 429, 500}, t \in UpstreamErrorTexts}
        \cup {[rejected |-> FALSE, status |-> 200, body |-> b] :
                 b \in {JsonText(Obj([artifacts |-> Arr(<<
                            Obj([base64 |-> Str("dGVzdC1pbWFnZS1kYXRh"),
                                 seed |-> Num(12345),
                                 finishReason |-> Str("SUCCESS")])>>)])),
                        JsonText(Obj([artifacts |-> Arr(<<>>)])),
                        JsonText(EmptyObject),
                        Str("<html>Bad Gateway</html>")}}

InitTxt2Img ==
    /\ pc = "idle"
    /\ event = NoEvent
    /\ resp = NoResult
    /\ trace = <<>>
    /\ call = NoCall
    /\ lambdaClient = Null
    /\ reply = NoReply
    /\ constructed = 0
    /\ served = [initialize |-> {}, toolsList |-> {}]
    /\ other = NoOther
    /\ env = [n \in EnvNames |-> Undefined]
    /\ config = ConfigManager(TRUE)
    /\ lookup = <<NoLookup, NoLookup>>
    /\ last = NoLast
    /\ history = NoHistory

\* handler, up to its response or to the await of getKnownConfig.
Txt2ImgHandler ==
    /\ pc = "idle"
    /\ \E e \in Txt2ImgEvents :
        LET parsed == parseRequest(e.body)
        IN  /\ event' = e
            /\ IF e.httpMethod = "OPTIONS"
               THEN /\ pc' = "done"
                    /\ resp' = Txt2ImgPreflight
                    /\ trace' = <<>>
                    /\ UNCHANGED call
               ELSE IF parsed.kind = "throw"
               THEN /\ pc' = "done"
                    /\ resp' = Txt2ImgCatch(parsed.error)
                    /\ trace' = <<"parseRequest">>
                    /\ UNCHANGED call
               ELSE /\ pc' = "awaitApiKey"
                    /\ resp' = NoResult
                    /\ trace' = <<"parseRequest", "getKnownConfig">>
                    /\ call' = [NoCall EXCEPT !.request = parsed.value]
    /\ UNCHANGED <<env, lambdaClient, config, reply, constructed, served, other,
                   managerVars>>

\* getKnownConfig settles; with the key, getValue gives the model and
\* generateImage posts the payload upstream.
ApiKeySettles ==
    /\ pc = "awaitApiKey"
    /\ \E apiKey \in ApiKeyOutcomes, model \in StabilityModels :
        IF apiKey.kind = "throw"
        THEN /\ pc' = "done"
             /\ resp' = Txt2ImgCatch(apiKey.error)
             /\ call' = NoCall
             /\ UNCHANGED trace
        ELSE /\ pc' = "awaitUpstream"
             /\ call' = [call EXCEPT !.functionName = model,
                                     !.sent = StabilityPayload(call.request)]
             /\ trace' = trace \o <<"getValue", "fetch">>
             /\ UNCHANGED resp
    /\ UNCHANGED <<event, env, lambdaClient, config, reply, constructed, served, other,
                   managerVars>>

\* The upstream fetch settles.
UpstreamReply ==
    /\ pc = "awaitUpstream"
    /\ \E o \in UpstreamReplies :
        LET generated == IF o.rejected THEN Throw(o.error)
                         ELSE generateImage(call.request, call.functionName, o)
        IN  /\ resp' = IF generated.kind = "throw" THEN Txt2ImgCatch(generated.error)
                       ELSE ProxyResult(200, Txt2ImgHeaders, JSONStringify(generated.value))
            /\ reply' = [via |-> "fetch", outcome |-> o]
    /\ pc' = "done"
    /\ call' = NoCall
    /\ UNCHANGED <<event, trace, env, lambdaClient, config, constructed, served, other,
                   managerVars>>

NextTxt2Img == Txt2ImgHandler \/ ApiKeySettles \/ UpstreamReply \/ Complete

SpecTxt2Img == InitTxt2Img /\ [][NextTxt2Img]_vars

(***************************************************************************)
(* What the properties below read off a state.                             *)
(***************************************************************************)
\* The handler has returned its response to the event.
Responded == pc = "done"

\* The response body is a JSON text (every response but the preflight's).
HasEnvelope == Responded /\ "json" \in DOMAIN resp.body

ResponseBody == resp.body.json

ErrorCode == Get(Get(ResponseBody, "error"), "code")

ErrorMessage == Get(Get(ResponseBody, "error"), "message")

\* The event is a POST whose body is a non-empty text.
PostWithBody == event.httpMethod = "POST" /\ Truthy(event.body)

\* ... that is not valid JSON.
PostMalformed == PostWithBody /\ JSONParse(event.body).threw

\* ... that decodes to a JSON object.
PostEnvelope ==
    /\ PostWithBody
    /\ ~JSONParse(event.body).threw
    /\ JSONParse(event.body).value.type = "object"

Request == JSONParse(event.body).value

\* jsonrpc "2.0" and a non-empty string method.
WellFramed ==
    /\ PostEnvelope
    /\ Get(Request, "jsonrpc") = Str("2.0")
    /\ Get(Request, "method").type = "string"
    /\ Get(Request, "method") # Str("")

ToolName == OptGet(Get(Request, "params"), "name")

InCatalogue(name) == \E i \in DOMAIN TOOL_REGISTRY : Str(TOOL_REGISTRY[i].name) = name

ToolsCall == WellFramed /\ Get(Request, "method") = Str("tools/call")

KnownToolsCall == ToolsCall /\ InCatalogue(ToolName)

\* The outbound backend calls of the invocation, in order.
BackendCalls == SelectSeq(trace, LAMBDA step : step \in {"fetch", "lambda.send"})

Took(step) == \E i \in DOMAIN trace : trace[i] = step

(***************************************************************************)
(* Properties of the router.                                               *)
(***************************************************************************)

\* C1: a POST body that decodes to an envelope whose jsonrpc member is not
\* "2.0" is answered with error.code -32600, no result, and the id of the
\* request (not null when the request carried an id).
C1_InvalidVersionEchoesId ==
    (Responded /\ PostEnvelope /\ Get(Request, "jsonrpc") # Str("2.0"))
        => /\ HasEnvelope
           /\ ErrorCode = Num(-32600)
           /\ ~Has(ResponseBody, "result")
           /\ (Has(Request, "id") => Get(ResponseBody, "id") = Get(Request, "id"))

\* C2 (as amended): a non-empty POST body that is not valid JSON is answered
\* with status 400, error.code -32700 and id null, and neither a method
\* handler nor a backend is invoked; status 400 and code -32700 occur on no
\* other path.
C2_ParseError ==
    /\ (Responded /\ PostMalformed)
          => /\ resp.statusCode = 400
             /\ HasEnvelope
             /\ ErrorCode = Num(-32700)
             /\ Has(ResponseBody, "id")
             /\ Get(ResponseBody, "id") = Null
             /\ ~Has(ResponseBody, "result")
             /\ trace = <<"event.body", "JSON.parse">>
    /\ (HasEnvelope /\ (resp.statusCode = 400 \/ ErrorCode = Num(-32700)))
          => PostMalformed

C2_Witness ==
    /\ Responded
    /\ event = [httpMethod |-> "POST", body |-> Str("not valid json")]
    /\ resp.statusCode = 400
    /\ ErrorCode = Num(-32700)

\* C2 (as stated): ... and the decode failure is the only path on which the
\* id of the response is forced to null, that is, is null without being the
\* id of the request.
C2_OnlyDecodeFailureForcesNullId ==
    /\ (Responded /\ PostMalformed)
          => /\ resp.statusCode = 400
             /\ ErrorCode = Num(-32700)
             /\ Get(ResponseBody, "id") = Null
    /\ (HasEnvelope /\ Has(ResponseBody, "id") /\ Get(ResponseBody, "id") = Null
           /\ ~(PostEnvelope /\ Has(Request, "id") /\ Get(Request, "id") = Null))
          => PostMalformed

\* C3: a well-framed request whose method is none of the eight known ones is
\* answered with status 200, error.code -32601, no result, and the id of the
\* request (absent when the request has none).
C3_MethodNotFound ==
    (Responded /\ WellFramed /\ Get(Request, "method") \notin KnownMethods)
        => /\ resp.statusCode = 200
           /\ HasEnvelope
           /\ ErrorCode = Num(-32601)
           /\ ~Has(ResponseBody, "result")
           /\ Get(ResponseBody, "id") = Get(Request, "id")

C3_Witness ==
    /\ Responded
    /\ WellFramed
    /\ Get(Request, "method") = Str("foo/bar")
    /\ Get(Request, "id") = Num(1)
    /\ ErrorCode = Num(-32601)
    /\ Get(ResponseBody, "id") = Num(1)

\* C4: a tools/call whose params.name is missing, empty, not a string, or
\* names no registry entry is answered with error.code -32602 and status 200
\* and makes no outbound call in either transport mode; when the name is a
\* string absent from the registry, the message contains that name.
C4_InvalidToolName ==
    (Responded /\ ToolsCall /\ ~InCatalogue(ToolName))
        => /\ resp.statusCode = 200
           /\ HasEnvelope
           /\ ErrorCode = Num(-32602)
           /\ ~Has(ResponseBody, "result")
           /\ BackendCalls = <<>>
           /\ ~Took("getValue") /\ ~Took("ssm.send") /\ ~Took("new LambdaClient")
           /\ (ToolName.type = "string" /\ ToolName # Str("")
                 => Contains(ErrorMessage, ToolName.str))

C4_Witness ==
    /\ Responded
    /\ ToolsCall
    /\ ToolName = Str("no_such_tool")
    /\ ErrorCode = Num(-32602)
    /\ Contains(ErrorMessage, "no_such_tool")
    /\ ~UseHttp(env["LOCAL_API_BASE_URL"])

\* C5: a tools/call on a registry entry makes exactly one outbound backend
\* call, whether it succeeds or fails: a fetch when LOCAL_API_BASE_URL is set
\* to a non-empty value, a Lambda invoke otherwise; never both, never a second
\* attempt, never a fallback from one strategy to the other.
C5_ExactlyOneBackendCall ==
    /\ Len(BackendCalls) <= 1
    /\ (Responded /\ KnownToolsCall)
          => BackendCalls =
                (IF env["LOCAL_API_BASE_URL"] \notin {Undefined, Str("")}
                 THEN <<"fetch">> ELSE <<"lambda.send">>)
    /\ (pc \in {"awaitFetch", "awaitSend"} => Len(BackendCalls) = 1)
    /\ (pc = "awaitParameter" => BackendCalls = <<>>)

\* A backend call that failed, answered after the one attempt.
C5_Witness ==
    /\ Responded
    /\ KnownToolsCall
    /\ ErrorCode = Num(-32603)
    /\ BackendCalls = <<"lambda.send">>
    /\ env["LOCAL_API_BASE_URL"] = Str("")

\* C6: every JSON-RPC response envelope carries exactly one of result and
\* error, on every dispatch branch and every error path.
C6_ResultXorError ==
    HasEnvelope => (Has(ResponseBody, "result") <=> ~Has(ResponseBody, "error"))

C6_Witness ==
    /\ HasEnvelope
    /\ KnownToolsCall
    /\ Has(ResponseBody, "result")
    /\ ~Has(ResponseBody, "error")
    /\ BackendCalls = <<"fetch">>

\* C7: every serialized response envelope contains an id member (possibly
\* null), also when the well-framed request carries no id member.
C7_IdAlwaysPresent ==
    HasEnvelope => Has(ResponseBody, "id")

\* C8: the status is 200 for every protocol-level error (invalid request,
\* method not found, invalid params, internal error of a backend failure or
\* a fault during dispatch); a status other than 200 is 405 for a verb that
\* is neither POST nor OPTIONS, 400 for a body that does not decode, 500 for
\* a fault outside dispatch, and nothing else.
C8_TransportStatus ==
    Responded =>
        /\ resp.statusCode \in {200, 400, 405, 500}
        /\ (resp.statusCode = 405 <=> event.httpMethod \notin {"POST", "OPTIONS"})
        /\ (resp.statusCode = 400 <=> PostMalformed)
        /\ (resp.statusCode = 500
              => /\ PostWithBody
                 /\ ~PostMalformed
                 /\ ~Took("handleMcpRequest")
                 /\ ErrorCode = Num(-32603))
        /\ (event.httpMethod = "POST" /\ HasEnvelope
              /\ ErrorCode \in {Num(-32600), Num(-32601), Num(-32602)}
              => resp.statusCode = 200)
        /\ (Took("handleMcpRequest") => resp.statusCode = 200)

\* A backend failure in direct mode: an internal error with status 200.
C8_Witness ==
    /\ Responded
    /\ KnownToolsCall
    /\ BackendCalls = <<"fetch">>
    /\ ErrorCode = Num(-32603)
    /\ resp.statusCode = 200

\* C9: a verb other than POST and OPTIONS is answered with status 405 and a
\* message containing "Method not allowed", without the body being read or
\* parsed and without any handler being invoked.
C9_MethodNotAllowed ==
    (Responded /\ event.httpMethod \notin {"POST", "OPTIONS"})
        => /\ resp.statusCode = 405
           /\ HasEnvelope
           /\ Contains(ErrorMessage, "Method not allowed")
           /\ trace = <<>>

C9_Witness ==
    /\ Responded
    /\ event.httpMethod = "GET"
    /\ "json" \in DOMAIN event.body
    /\ Get(event.body.json, "method") = Str("tools/call")
    /\ resp.statusCode = 405

\* C10 (as stated): the body of the 405 response is a plain JSON error: it
\* has no jsonrpc tag and no error code of the JSON-RPC taxonomy.
C10_PlainErrorBody ==
    (Responded /\ resp.statusCode = 405)
        => /\ ~Has(ResponseBody, "jsonrpc")
           /\ ErrorCode \notin {Num(-32700), Num(-32600), Num(-32601), Num(-32602),
                                Num(-32603)}

\* C10 (as amended): the 405 response differs from a protocol-level error in
\* its status alone; its body is a JSON-RPC error envelope: jsonrpc "2.0",
\* id null, error.code -32600, no result.
C10_MethodNotAllowedBody ==
    (Responded /\ resp.statusCode = 405)
        => /\ event.httpMethod \notin {"POST", "OPTIONS"}
           /\ HasEnvelope
           /\ Get(ResponseBody, "jsonrpc") = Str("2.0")
           /\ Has(ResponseBody, "id") /\ Get(ResponseBody, "id") = Null
           /\ ErrorCode = Num(-32600)
           /\ Contains(ErrorMessage, "Method not allowed")
           /\ ~Has(ResponseBody, "result")

C10_Witness ==
    /\ Responded
    /\ event.httpMethod = "PUT"
    /\ resp.statusCode = 405
    /\ Get(ResponseBody, "jsonrpc") = Str("2.0")

\* A header value that lists verbs, comma-separated.
RECURSIVE JoinVerbs(_)
JoinVerbs(list) ==
    IF list = <<>> THEN ""
    ELSE IF Len(list) = 1 THEN list[1]
    ELSE list[1] \o ", " \o JoinVerbs(Tail(list))

VerbLists == UNION {[1..n -> Verbs] : n \in 1..3}

\* The comma-separated header value names every verb of the set.
Covers(value, verbs) ==
    \E list \in VerbLists :
        /\ value = JoinVerbs(list)
        /\ verbs \subseteq {list[i] : i \in DOMAIN list}

\* C11: an OPTIONS request, whatever its body, is answered with status 200,
\* an empty body and the headers Access-Control-Allow-Origin "*",
\* Access-Control-Allow-Headers "Content-Type" and Access-Control-Allow-Methods
\* covering POST and OPTIONS; the body is neither read nor parsed, and no
\* handler or backend is invoked.
C11_Preflight ==
    (Responded /\ event.httpMethod = "OPTIONS")
        => /\ resp.statusCode = 200
           /\ resp.body = Str("")
           /\ "Access-Control-Allow-Origin" \in DOMAIN resp.headers
           /\ resp.headers["Access-Control-Allow-Origin"] = "*"
           /\ "Access-Control-Allow-Headers" \in DOMAIN resp.headers
           /\ resp.headers["Access-Control-Allow-Headers"] = "Content-Type"
           /\ "Access-Control-Allow-Methods" \in DOMAIN resp.headers
           /\ Covers(resp.headers["Access-Control-Allow-Methods"], {"POST", "OPTIONS"})
           /\ trace = <<>>
           /\ reply = NoReply

C11_Witness ==
    /\ Responded
    /\ event.httpMethod = "OPTIONS"
    /\ "json" \in DOMAIN event.body
    /\ Get(event.body.json, "method") = Str("tools/call")
    /\ resp.statusCode = 200
    /\ resp.body = Str("")

\* C12 (as stated): every response, for every verb and every body, has a body
\* that is valid JSON carrying a jsonrpc tag.
C12_EveryBodyIsJson ==
    Responded => (HasEnvelope /\ Has(ResponseBody, "jsonrpc"))

\* C12 (as amended): every response to a verb other than OPTIONS has a body
\* that is valid JSON carrying jsonrpc "2.0" and exactly one of result and
\* error, an error holding a code and a message; the response to OPTIONS has
\* an empty body, which is not JSON.
C12_JsonRpcBody ==
    Responded =>
        IF event.httpMethod = "OPTIONS"
        THEN ~HasEnvelope /\ resp.body = Str("")
        ELSE /\ HasEnvelope
             /\ ResponseBody.type = "object"
             /\ Get(ResponseBody, "jsonrpc") = Str("2.0")
             /\ Has(ResponseBody, "error") # Has(ResponseBody, "result")
             /\ Has(ResponseBody, "error")
                    => /\ Get(ResponseBody, "error").type = "object"
                       /\ ErrorCode.type = "number"
                       /\ Has(Get(ResponseBody, "error"), "message")

C12_Witness ==
    /\ Responded
    /\ event = [httpMethod |-> "POST", body |-> Str("{\"jsonrpc\":")]
    /\ HasEnvelope
    /\ Get(ResponseBody, "jsonrpc") = Str("2.0")
    /\ Has(ResponseBody, "error")
    /\ ~Has(ResponseBody, "result")

\* C13: in any sequence of requests of one process, with tools/call requests
\* of another invocation interleaved and with the Lambda client created in
\* between, every tools/list response carries the same result and every
\* initialize response carries the same result, whatever the params of the
\* initialize request.
C13_SameListingResults ==
    /\ \A a, b \in served.initialize : a.result = b.result
    /\ \A a, b \in served.toolsList : a.result = b.result
    /\ (Responded /\ WellFramed /\ Get(Request, "method") = Str("initialize"))
          => /\ HasEnvelope /\ Has(ResponseBody, "result")
             /\ \E a \in served.initialize : a.result = Get(ResponseBody, "result")
    /\ (Responded /\ WellFramed /\ Get(Request, "method") = Str("tools/list"))
          => /\ HasEnvelope /\ Has(ResponseBody, "result")
             /\ \E a \in served.toolsList : a.result = Get(ResponseBody, "result")

\* initialize was answered with and without params, tools/list before and
\* after the Lambda client was created, and a second invocation is awaiting
\* its backend.
C13_Witness ==
    /\ Responded
    /\ WellFramed
    /\ Get(Request, "method") = Str("initialize")
    /\ {a.params : a \in served.initialize} = {Undefined, InitializeParams}
    /\ {a.client : a \in served.toolsList} = {Null, NewLambdaClient(1)}
    /\ other.pc = "awaitSend"

(***************************************************************************)
(* What the backend of a settled tools/call replied.                       *)
(***************************************************************************)
\* The backend call resolved (fetch, or client.send without FunctionError)
\* with a reply that carries a status and a body.
LambdaEnvelope ==
    IF /\ reply.via = "lambda" /\ ~reply.outcome.rejected
       /\ ~Truthy(reply.outcome.FunctionError) /\ Truthy(reply.outcome.Payload)
       /\ ~JSONParse(reply.outcome.Payload).threw
    THEN JSONParse(reply.outcome.Payload).value
    ELSE Undefined

BackendReplied ==
    \/ reply.via = "fetch" /\ ~reply.outcome.rejected
    \/ reply.via = "lambda" /\ LambdaEnvelope.type = "object"

\* The HTTP status of the reply, or the statusCode of the Lambda envelope.
BackendStatus ==
    IF reply.via = "fetch" THEN reply.outcome.status
    ELSE Get(LambdaEnvelope, "statusCode").num

\* The body text of the reply; the Lambda envelope's, '{}' when it has none.
BackendBody ==
    IF reply.via = "fetch" THEN reply.outcome.body
    ELSE IF Truthy(Get(LambdaEnvelope, "body")) THEN Get(LambdaEnvelope, "body")
    ELSE JsonText(EmptyObject)

BackendDecodable == BackendReplied /\ ~JSONParse(BackendBody).threw

BackendPayload == JSONParse(BackendBody).value

\* A reply with a 2xx status and a body that decodes.
BackendSucceeded == BackendDecodable /\ Ok(BackendStatus)

Content == Get(Get(ResponseBody, "result"), "content")

TextBlock(payload) == Obj([type |-> Str("text"), text |-> JSONStringify(payload)])

\* C14 (as stated): for a successful backend payload that is a JSON object,
\* if it has both an image member and a mime_type member the content has at
\* least two blocks and the first has type "image"; otherwise the content is
\* the single text block holding the serialized payload.
C14_ShapedByPresence ==
    (Responded /\ BackendSucceeded /\ BackendPayload.type = "object")
        => /\ HasEnvelope
           /\ IF Has(BackendPayload, "image") /\ Has(BackendPayload, "mime_type")
              THEN /\ Content.type = "array" /\ Len(Content.items) >= 2
                   /\ Get(Content.items[1], "type") = Str("image")
              ELSE Content = Arr(<<TextBlock(BackendPayload)>>)

\* C14 (as amended): for a successful backend payload other than null, if
\* its image and its mime_type are both truthy the content has two blocks,
\* the image block with the payload's data and MIME type and a text block;
\* otherwise (a member missing, or empty) the content is the single text
\* block holding the serialized payload.  A null payload yields error
\* -32603.  The content of a tools/call result is never empty.
C14_ShapedByTruthiness ==
    /\ (Responded /\ BackendSucceeded)
          => /\ HasEnvelope
             /\ IF BackendPayload = Null
                THEN ErrorCode = Num(-32603) /\ ~Has(ResponseBody, "result")
                ELSE IF /\ Truthy(Get(BackendPayload, "image"))
                        /\ Truthy(Get(BackendPayload, "mime_type"))
                THEN /\ Content.type = "array" /\ Len(Content.items) = 2
                     /\ Get(Content.items[1], "type") = Str("image")
                     /\ Get(Content.items[1], "data") = Get(BackendPayload, "image")
                     /\ Get(Content.items[1], "mimeType") = Get(BackendPayload, "mime_type")
                     /\ Get(Content.items[2], "type") = Str("text")
                ELSE Content = Arr(<<TextBlock(BackendPayload)>>)
    /\ (Responded /\ reply # NoReply /\ Has(ResponseBody, "result"))
          => Content.type = "array" /\ Len(Content.items) >= 1

\* A payload with an empty image and a mime_type, answered with one text
\* block.
C14_Witness ==
    /\ Responded
    /\ BackendSucceeded
    /\ BackendPayload = Obj([image |-> Str(""), mime_type |-> Str("image/png")])
    /\ Content = Arr(<<TextBlock(BackendPayload)>>)

\* C15: both strategies classify a backend reply the same way.  A reply
\* whose body decodes to an object is a failure exactly when its status (the
\* HTTP status, or the statusCode of the Lambda envelope) is not 2xx; a
\* failure yields error.code -32603 with the payload's error text when it has
\* one and a generic fallback otherwise; a 2xx reply yields a result.
C15_UniformClassification ==
    (Responded /\ BackendDecodable /\ BackendPayload.type = "object")
        => /\ HasEnvelope
           /\ IF Ok(BackendStatus)
              THEN Has(ResponseBody, "result") /\ ~Has(ResponseBody, "error")
              ELSE /\ ~Has(ResponseBody, "result")
                   /\ ErrorCode = Num(-32603)
                   /\ IF Truthy(Get(BackendPayload, "error"))
                      THEN ErrorMessage = Template(<<Get(BackendPayload, "error").str>>)
                      ELSE ErrorMessage \in
                               {Template(<<"HTTP ", ToString(BackendStatus)>>),
                                Template(<<"Tool execution failed">>)}

\* The backend call of the invocation threw a condition that is not a
\* protocol error: the call was rejected, or the reply's text did not decode.
Faulted ==
    /\ Responded
    /\ reply # NoReply
    /\ \/ reply.outcome.rejected
       \/ reply.via = "fetch" /\ JSONParse(reply.outcome.body).threw
       \/ /\ reply.via = "lambda" /\ ~Truthy(reply.outcome.FunctionError)
          /\ Truthy(reply.outcome.Payload)
          /\ \/ JSONParse(reply.outcome.Payload).threw
             \/ LambdaEnvelope.type = "object" /\ JSONParse(BackendBody).threw

\* The condition thrown.
Fault ==
    IF reply.outcome.rejected THEN reply.outcome.error
    ELSE IF reply.via = "fetch" THEN JSONParse(reply.outcome.body).error
    ELSE IF JSONParse(reply.outcome.Payload).threw
    THEN JSONParse(reply.outcome.Payload).error
    ELSE JSONParse(BackendBody).error

\* C16 (as stated): a condition thrown during dispatch that is not a protocol
\* error is reported with status 200, error.code -32603, the id of the
\* request, and a message that is the condition's own message text.
C16_OwnMessage ==
    Faulted
        => /\ resp.statusCode = 200
           /\ ErrorCode = Num(-32603)
           /\ Get(ResponseBody, "id") = Get(Request, "id")
           /\ ErrorMessage = Fault.message

\* C16 (as amended): such a condition is reported with status 200,
\* error.code -32603, no result, the id member of the request (absent when
\* the request has none), and the message "Internal error: " followed by the
\* condition's message text.
C16_InternalErrorPrefix ==
    Faulted
        => /\ resp.statusCode = 200
           /\ HasEnvelope
           /\ ~Has(ResponseBody, "result")
           /\ ErrorCode = Num(-32603)
           /\ Get(ResponseBody, "id") = Get(Request, "id")
           /\ ErrorMessage = Template(<<"Internal error: ">> \o Fault.message.parts)

\* fetch was rejected for a request with an id.
C16_Witness ==
    /\ Faulted
    /\ reply.via = "fetch"
    /\ reply.outcome.rejected
    /\ Get(Request, "id") = Num(1)
    /\ ErrorMessage = Template(<<"Internal error: ", "fetch failed">>)

\* C17: across any sequence and interleaving of invocations in one process
\* the Lambda client is constructed at most once, every remote-mode
\* tools/call sends with that one instance, and an invocation constructs it
\* only on its way to a remote-mode backend call: never for a listing
\* method, a framing error, an unknown tool or in direct-HTTP mode.
C17_SingleLambdaClient ==
    /\ constructed <= 1
    /\ lambdaClient = (IF constructed = 0 THEN Null ELSE NewLambdaClient(1))
    /\ pc = "awaitSend" => call.client = NewLambdaClient(1)
    /\ other.pc = "awaitSend" => other.client = NewLambdaClient(1)
    /\ Took("new LambdaClient")
          => /\ KnownToolsCall
             /\ ~UseHttp(env["LOCAL_API_BASE_URL"])
             /\ Took("lambda.send")
    /\ (Responded /\ reply.via # "lambda") => ~Took("new LambdaClient")

\* Two tools/call invocations await their sends with the same client, which
\* the second one built while the first awaited its function name.
C17_Witness ==
    /\ pc = "awaitSend"
    /\ other.pc = "awaitSend"
    /\ call.client = other.client
    /\ ~Took("new LambdaClient")
    /\ Took("ssm.send")
    /\ constructed = 1

\* C18: a POST whose body is absent or empty is answered with status 200 and
\* a JSON-RPC error with code -32600 (not -32700) and id null; the body is
\* not parsed and nothing is dispatched.
C18_EmptyBody ==
    (Responded /\ event.httpMethod = "POST" /\ event.body \in {Undefined, Null, Str("")})
        => /\ resp.statusCode = 200
           /\ HasEnvelope
           /\ Get(ResponseBody, "jsonrpc") = Str("2.0")
           /\ ErrorCode = Num(-32600)
           /\ Has(ResponseBody, "id") /\ Get(ResponseBody, "id") = Null
           /\ ~Has(ResponseBody, "result")
           /\ trace = <<"event.body">>
           /\ reply = NoReply

C18_Witness ==
    /\ Responded
    /\ event = [httpMethod |-> "POST", body |-> Str("")]
    /\ resp.statusCode = 200
    /\ ErrorCode = Num(-32600)
    /\ ErrorMessage = Template(<<"Empty request body">>)

\* The POST body decoded to a value other than null.
PostDecoded ==
    /\ PostWithBody
    /\ ~JSONParse(event.body).threw
    /\ Request # Null

VersionOk == Get(Request, "jsonrpc") = Str("2.0")

MethodOk == Get(Request, "method").type = "string" /\ Get(Request, "method") # Str("")

\* C19: after decoding, the version tag is checked first and the method
\* second.  A request with the version tag "2.0" whose method is missing,
\* empty or not a string is answered with error.code -32600 for the method; a
\* request with a wrong version tag is answered with error.code -32600 for
\* the version, also when its method is invalid too; neither is dispatched.
C19_ValidationOrder ==
    (Responded /\ PostDecoded)
        => IF ~VersionOk
           THEN /\ ErrorCode = Num(-32600)
                /\ ErrorMessage = Template(<<"Invalid JSON-RPC version">>)
                /\ ~Took("handleMcpRequest")
           ELSE IF ~MethodOk
           THEN /\ ErrorCode = Num(-32600)
                /\ ErrorMessage = Template(<<"Missing or invalid method">>)
                /\ ~Took("handleMcpRequest")
           ELSE Took("handleMcpRequest")

\* A request with version "1.0" and a numeric method reports the version.
C19_Witness ==
    /\ Responded
    /\ PostDecoded
    /\ Get(Request, "jsonrpc") = Str("1.0")
    /\ Get(Request, "method") = Num(7)
    /\ ErrorMessage = Template(<<"Invalid JSON-RPC version">>)

\* The result the interface documents for a method without backend.
DocumentedResult(method) ==
    CASE method = Str("initialize") ->
            Obj([protocolVersion |-> Str("2025-06-18"),
                 capabilities |-> Obj([tools |-> Obj(<<>>)]),
                 serverInfo |-> Obj([name |-> Str("image-workshop-mcp"),
                                     version |-> Str("1.0.0")])])
      [] method = Str("resources/list") -> Obj([resources |-> Arr(<<>>)])
      [] method = Str("prompts/list") -> Obj([prompts |-> Arr(<<>>)])
      [] OTHER -> Obj(<<>>)

\* C20: initialize, initialized, notifications/initialized, resources/list,
\* prompts/list and ping, in an envelope with jsonrpc "2.0", are answered
\* with status 200, no error, the id member of the request and the documented
\* result; the invocation makes no outbound call, builds no client and
\* resolves no configuration, and a reply is sent for the notifications too.
C20_LocalMethods ==
    (/\ Responded /\ WellFramed
     /\ Get(Request, "method") \in
            {Str("initialize"), Str("initialized"), Str("notifications/initialized"),
             Str("resources/list"), Str("prompts/list"), Str("ping")})
        => /\ resp.statusCode = 200
           /\ HasEnvelope
           /\ Get(ResponseBody, "jsonrpc") = Str("2.0")
           /\ ~Has(ResponseBody, "error")
           /\ Get(ResponseBody, "id") = Get(Request, "id")
           /\ Has(ResponseBody, "result")
           /\ Get(ResponseBody, "result") = DocumentedResult(Get(Request, "method"))
           /\ trace = <<"event.body", "JSON.parse", "handleMcpRequest">>
           /\ reply = NoReply

C20_Witness ==
    /\ Responded
    /\ WellFramed
    /\ Get(Request, "method") = Str("notifications/initialized")
    /\ Get(Request, "id") = Str("abc")
    /\ Get(ResponseBody, "id") = Str("abc")
    /\ Get(ResponseBody, "result") = Obj(<<>>)

ListedTools == Get(Get(ResponseBody, "result"), "tools")

CalledTool == TOOL_REGISTRY[call.tool]

CalledKey == CacheKey(EnvKey(CalledTool), "", ParameterId(CalledTool))

\* C22: in remote mode the function name of the invoke comes from the
\* fallback chain in this order: the environment variable
\* LAMBDA_<UPPERCASED lambdaFunction> when set and not empty, without a
\* parameter lookup; else the value of the parameter
\* /image-workshop/lambda/<lambdaFunction> when the lookup obtained one; else
\* the entry's static lambdaFunction.  An invocation that finds the name in
\* the cache uses what the chain produced before.
C22_FunctionNameChain ==
    pc = "awaitSend"
        => /\ EnvKey(CalledTool) = "LAMBDA_TOOLTXT2IMGSTABLEDIFFUSIONFUNCTION"
           /\ ParameterId(CalledTool)
                 = "/image-workshop/lambda/ToolTxt2imgStableDiffusionFunction"
           /\ IF env[EnvKey(CalledTool)] \notin {Undefined, Str("")}
              THEN /\ call.functionName = env[EnvKey(CalledTool)]
                   /\ ~Took("ssm.send")
              ELSE IF Took("ssm.send")
              THEN call.functionName =
                       (IF call.paramValue \notin {Undefined, Null, Str("")}
                        THEN call.paramValue
                        ELSE Str("ToolTxt2imgStableDiffusionFunction"))
              ELSE /\ CalledKey \in DOMAIN config.cache
                   /\ \/ call.functionName \in ParameterOutcomes \ {Null}
                      \/ call.functionName = Str("ToolTxt2imgStableDiffusionFunction")

\* The variable is set to the empty string and the lookup obtains nothing:
\* the static name is used.
C22_Witness ==
    /\ pc = "awaitSend"
    /\ env[EnvKey(CalledTool)] = Str("")
    /\ Took("ssm.send")
    /\ call.paramValue = Null
    /\ call.functionName = Str("ToolTxt2imgStableDiffusionFunction")

(***************************************************************************)
(* What a step of the ConfigManager shows.                                 *)
(***************************************************************************)
\* In this step caller c invokes getConfig.
Invoked(c) ==
    /\ lookup[c].pc = "idle"
    /\ \/ lookup'[c].pc # "idle"
       \/ last' # last /\ last'.caller = c

\* ... with these options,
InvokedOptions(c) == IF lookup'[c].pc # "idle" THEN lookup'[c].options ELSE last'.options

InvokedKey(c) == OptionsKey(TEST_KEY, InvokedOptions(c))

\* ... and the call returns this value in the same step.
ReturnedAtOnce(c, value) ==
    /\ lookup'[c].pc = "idle"
    /\ last'.outcome.kind = "return"
    /\ last'.outcome.value.value = value

\* C23: with caching enabled, once getConfig has returned a value for a
\* triple, every getConfig invoked later for it returns that value, whatever
\* the environment has become, until clearCache; the first getConfig invoked
\* after clearCache resolves from the environment of that moment; with caching
\* disabled every getConfig resolves from the environment of its moment.
C23_CachedUntilCleared ==
    [][\A c \in Callers :
         Invoked(c) =>
            /\ (config.enableCaching /\ InvokedKey(c) \in DOMAIN history.first)
                  => ReturnedAtOnce(c, history.first[InvokedKey(c)].value)
            /\ (config.enableCaching /\ history.cleared /\ EnvSet(env[TEST_KEY]))
                  => ReturnedAtOnce(c, env[TEST_KEY])
            /\ (~config.enableCaching /\ EnvSet(env[TEST_KEY]))
                  => ReturnedAtOnce(c, env[TEST_KEY])]_vars

\* The cache holds, for a triple, another value than the one getConfig
\* returned first: a call that was awaiting the parameter store when the
\* first one returned has stored its own result.
C23_Witness ==
    /\ config.enableCaching
    /\ lookup = <<NoLookup, NoLookup>>
    /\ \E key \in DOMAIN history.first \cap DOMAIN config.cache :
          /\ history.first[key].value = Str("fn-from-parameter-store")
          /\ config.cache[key].value = Str("default-value")

\* C30: the cache is keyed by (envKey, secretId, parameterId) only and holds
\* only returned values: with caching enabled, once a getConfig has resolved
\* to its defaultValue, every getConfig invoked later for the same triple
\* returns that first default, whatever defaultValue it passes and whatever
\* the environment holds by then, until clearCache; a getConfig that throws
\* leaves the cache as it was, and a call for a triple for which nothing was
\* returned yet resolves from the current environment.
C30_FirstDefaultKept ==
    [][/\ \A c \in Callers :
            Invoked(c) =>
               /\ (/\ config.enableCaching
                   /\ InvokedKey(c) \in DOMAIN history.first
                   /\ history.first[InvokedKey(c)].step = "default")
                     => ReturnedAtOnce(c, history.first[InvokedKey(c)].value)
               /\ (/\ config.enableCaching
                   /\ InvokedKey(c) \notin DOMAIN history.first
                   /\ env[TEST_KEY] \notin {Undefined, Str("")})
                     => ReturnedAtOnce(c, env[TEST_KEY])
       /\ (last' # last /\ last'.outcome.kind = "throw")
             => config'.cache = config.cache]_vars

\* The cache holds, for a triple, another value than the default getConfig
\* resolved to first: a call that was awaiting the parameter store when the
\* default was returned has stored its own result.
C30_Witness ==
    /\ config.enableCaching
    /\ lookup = <<NoLookup, NoLookup>>
    /\ \E key \in DOMAIN history.first \cap DOMAIN config.cache :
          /\ history.first[key].step = "default"
          /\ history.first[key].value = Str("default-value")
          /\ config.cache[key].value = Str("fn-from-parameter-store")

\* The steps that reach outside the handler: a configuration lookup, a
\* parameter-store read, the creation of the Lambda client, a backend call.
Effects == {"getValue", "ssm.send", "new LambdaClient", "lambda.send", "fetch"}

TookEffect == \E i \in DOMAIN trace : trace[i] \in Effects

\* C25: no backend call, configuration lookup or client creation happens
\* unless the request has, in this order, been a POST, been decoded, passed
\* the version check, passed the method check, been dispatched as tools/call
\* and named a catalogue tool; a request that fails at framing or decoding
\* ends with a response, with nothing of the later stages done.
C25_GatesBeforeEffects ==
    /\ TookEffect
          => /\ event.httpMethod = "POST"
             /\ PostDecoded
             /\ VersionOk
             /\ MethodOk
             /\ Get(Request, "method") = Str("tools/call")
             /\ InCatalogue(ToolName)
             /\ Len(trace) >= 5
             /\ SubSeq(trace, 1, 4) =
                   <<"event.body", "JSON.parse", "handleMcpRequest", "handleToolsCall">>
             /\ \A i \in 1..4 : trace[i] \notin Effects
    /\ (pc # "idle" /\ ~(event.httpMethod = "POST" /\ PostDecoded /\ VersionOk /\ MethodOk))
          => /\ Responded
             /\ ~TookEffect
             /\ ~Took("handleMcpRequest")
             /\ ~Took("handleToolsCall")
             /\ call = NoCall
    /\ (pc # "idle" /\ event.httpMethod = "POST" /\ PostDecoded /\ VersionOk /\ MethodOk
           /\ ~KnownToolsCall)
          => Responded /\ ~TookEffect

\* A tools/call on a catalogue tool under version tag "1.0" is answered at
\* the version check, with nothing looked up, created or called.
C25_Witness ==
    /\ Responded
    /\ PostDecoded
    /\ Get(Request, "jsonrpc") = Str("1.0")
    /\ Get(Request, "method") = Str("tools/call")
    /\ InCatalogue(ToolName)
    /\ ErrorCode = Num(-32600)
    /\ trace = <<"event.body", "JSON.parse">>

\* The payload carries an image: a non-empty image and a non-empty mime_type.
ImageBearing(payload) ==
    /\ payload.type = "object"
    /\ Has(payload, "image") /\ Get(payload, "image") \notin {Null, Str("")}
    /\ Has(payload, "mime_type") /\ Get(payload, "mime_type") \notin {Null, Str("")}

\* Those of seed, finish_reason and model the payload has.
Metadata(payload) ==
    Obj([k \in DOMAIN payload.members \cap {"seed", "finish_reason", "model"}
            |-> payload.members[k]])

\* C27: for a payload that carries an image, the content of the tools/call
\* result is exactly two blocks: the image block (data = image, mimeType =
\* mime_type) and then one text block whose text serializes those of seed,
\* finish_reason and model that the payload has, and nothing else.
C27_ImageThenMetadata ==
    (Responded /\ BackendSucceeded /\ ImageBearing(BackendPayload))
        => /\ HasEnvelope
           /\ Has(ResponseBody, "result")
           /\ Content =
                 Arr(<<Obj([type |-> Str("image"),
                            data |-> Get(BackendPayload, "image"),
                            mimeType |-> Get(BackendPayload, "mime_type")]),
                       TextBlock(Metadata(BackendPayload))>>)

\* An image payload that has a seed and neither finish_reason nor model: the
\* text block holds the seed alone.
C27_Witness ==
    /\ Responded
    /\ BackendSucceeded
    /\ ImageBearing(BackendPayload)
    /\ DOMAIN BackendPayload.members = {"image", "mime_type", "seed"}
    /\ Get(Content.items[2], "text") = JsonText(Obj([seed |-> Num(42)]))

\* The backend call resolved with a text that does not decode as JSON: the
\* HTTP body, the Lambda payload, or the body inside the Lambda payload.
Undecodable ==
    /\ Responded
    /\ reply # NoReply
    /\ ~reply.outcome.rejected
    /\ \/ reply.via = "fetch" /\ JSONParse(reply.outcome.body).threw
       \/ /\ reply.via = "lambda" /\ ~Truthy(reply.outcome.FunctionError)
          /\ Truthy(reply.outcome.Payload)
          /\ \/ JSONParse(reply.outcome.Payload).threw
             \/ LambdaEnvelope.type = "object" /\ JSONParse(BackendBody).threw

\* C28: a backend reply that does not decode as JSON is answered with status
\* 200 and error.code -32603, with the id of the request when it has one,
\* never with the parse-error response (-32700, status 400, id null); -32700
\* is returned only for an inbound body that does not decode, before any
\* backend call.
C28_BackendReplyNotParseError ==
    /\ Undecodable
          => /\ resp.statusCode = 200
             /\ HasEnvelope
             /\ ErrorCode = Num(-32603)
             /\ ~Has(ResponseBody, "result")
             /\ Has(Request, "id")
                   => /\ Has(ResponseBody, "id")
                      /\ Get(ResponseBody, "id") = Get(Request, "id")
             /\ Get(ResponseBody, "id") = Null => Get(Request, "id") = Null
    /\ (Responded /\ (resp.statusCode = 400 \/ (HasEnvelope /\ ErrorCode = Num(-32700))))
          => /\ PostMalformed
             /\ reply = NoReply
             /\ BackendCalls = <<>>

\* A Lambda payload whose embedded body is not JSON, for a request with id 1.
C28_Witness ==
    /\ Undecodable
    /\ reply.via = "lambda"
    /\ LambdaEnvelope.type = "object"
    /\ BackendBody = Str("<html>Bad Gateway</html>")
    /\ Get(Request, "id") = Num(1)
    /\ Get(ResponseBody, "id") = Num(1)
    /\ ErrorCode = Num(-32603)

\* The 500 response of the catch block.
InternalServerError ==
    /\ Responded
    /\ resp.statusCode = 500

\* C29: a POST body that decodes to an object, an array, a string, a number
\* or a boolean is answered with status 200 and an envelope holding a result
\* or an error, never with the 500 "Internal server error" response; that
\* response is produced exactly when the body decodes to null, where reading
\* the version member faults before anything is dispatched.
C29_InternalServerErrorOnlyForNull ==
    /\ (Responded /\ PostWithBody /\ ~JSONParse(event.body).threw)
          => IF Request = Null
             THEN /\ resp.statusCode = 500
                  /\ HasEnvelope
                  /\ ErrorCode = Num(-32603)
                  /\ ErrorMessage = Template(<<"Internal server error">>)
                  /\ Get(ResponseBody, "id") = Null
                  /\ trace = <<"event.body", "JSON.parse">>
             ELSE /\ Request.type \in {"object", "array", "string", "number", "boolean"}
                  /\ resp.statusCode = 200
                  /\ HasEnvelope
                  /\ Has(ResponseBody, "result") \/ Has(ResponseBody, "error")
    /\ InternalServerError
          => /\ PostWithBody
             /\ ~JSONParse(event.body).threw
             /\ Request = Null

\* The body "null" is answered with the 500 response.
C29_Witness ==
    /\ InternalServerError
    /\ event = [httpMethod |-> "POST", body |-> JsonText(Null)]
    /\ ErrorMessage = Template(<<"Internal server error">>)

\* The body decoded to an array, answered with status 200.
C29_WitnessArray ==
    /\ Responded
    /\ PostDecoded
    /\ Request.type = "array"
    /\ resp.statusCode = 200
    /\ ErrorCode = Num(-32600)

\* The arguments of the tools/call; the empty object when it has none.
SentArguments ==
    IF OptGet(Get(Request, "params"), "arguments") = Undefined THEN EmptyObject
    ELSE OptGet(Get(Request, "params"), "arguments")

\* The response the router gives when the other strategy brings the same
\* status and the same body text.
OtherStrategyResponse ==
    IF reply.via = "fetch"
    THEN ToolsCallResult(Request,
             invokeToolViaLambda(
                 [rejected |-> FALSE, FunctionError |-> Undefined,
                  Payload |-> JsonText(Obj([statusCode |-> Num(BackendStatus),
                                            body |-> BackendBody]))]))
    ELSE ToolsCallResult(Request, invokeToolViaHttp(BackendStatus, BackendBody))

\* C26: the backend receives the same arguments under both strategies.  In
\* direct mode the router POSTs the serialized arguments to the base URL
\* followed by the tool's apiPath; in remote mode it invokes the function
\* with the event {httpMethod: "POST", body: the serialized arguments,
\* headers, pathParameters: null, queryStringParameters: null,
\* requestContext: {}}; arguments that are absent are sent as {}; and for the
\* same backend status and body the response to the caller is the same under
\* both strategies.
C26_SameUnderBothStrategies ==
    /\ pc = "awaitFetch"
          => /\ call.sent.url = env["LOCAL_API_BASE_URL"].str \o CalledTool.apiPath
             /\ call.sent.method = "POST"
             /\ call.sent.body = JsonText(SentArguments)
    /\ pc = "awaitSend"
          => /\ call.sent.FunctionName = call.functionName
             /\ call.sent.Payload =
                   JsonText(Obj([httpMethod |-> Str("POST"),
                                 body |-> JsonText(SentArguments),
                                 headers |-> Obj([h \in {"Content-Type"}
                                                     |-> Str("application/json")]),
                                 pathParameters |-> Null,
                                 queryStringParameters |-> Null,
                                 requestContext |-> EmptyObject]))
    /\ (/\ Responded
        /\ BackendReplied
        /\ reply.via = "lambda" => Truthy(Get(LambdaEnvelope, "body")))
          => resp = OtherStrategyResponse

\* The Lambda envelope carries statusCode 302 and an image payload: the
\* router answers with a result, where direct mode answers status 302 with
\* an error.
C26_Witness ==
    /\ Responded
    /\ BackendReplied
    /\ reply.via = "lambda"
    /\ BackendStatus = 302
    /\ BackendDecodable
    /\ ImageBearing(BackendPayload)
    /\ Has(ResponseBody, "result")
    /\ resp # OtherStrategyResponse

\* The body of the txt2img request decoded to an object.
Txt2ImgInput == JSONParse(event.body).value

Blank(s) == \A i \in 1..Len(s) : SubSeq(s, i, i) = " "

\* The member is there and is not a number between lo and hi.
OutOfRange(v, lo, hi) == v # Undefined /\ ~(v.type = "number" /\ v.num >= lo /\ v.num <= hi)

NotMultipleOf64(v) == v.type = "number" /\ v.num % 64 # 0

\* The request fails validation: no body, or a body that decodes to an
\* object with no prompt or a blank one, a width or a height outside
\* 512..2048 or not a multiple of 64, steps outside 10..50, or cfg_scale
\* outside 1..35.
ValidationFailure ==
    \/ ~Truthy(event.body)
    \/ /\ ~JSONParse(event.body).threw
       /\ Txt2ImgInput.type = "object"
       /\ \/ Get(Txt2ImgInput, "prompt").type # "string"
          \/ Blank(Get(Txt2ImgInput, "prompt").str)
          \/ OutOfRange(Get(Txt2ImgInput, "width"), 512, 2048)
          \/ NotMultipleOf64(Get(Txt2ImgInput, "width"))
          \/ OutOfRange(Get(Txt2ImgInput, "height"), 512, 2048)
          \/ NotMultipleOf64(Get(Txt2ImgInput, "height"))
          \/ OutOfRange(Get(Txt2ImgInput, "steps"), 10, 50)
          \/ OutOfRange(Get(Txt2ImgInput, "cfg_scale"), 1, 35)

\* The upstream image API answered with a status that is not 2xx.
UpstreamNotOk ==
    /\ reply.via = "fetch"
    /\ ~reply.outcome.rejected
    /\ ~Ok(reply.outcome.status)

\* C24: the txt2img handler gives every failure one status: 400 for every
\* validation failure, with no upstream call made; 502 for every upstream
\* response that is not OK, whatever its error text; 500 for every other
\* failure.
C24_FailureStatus ==
    /\ (pc # "idle" /\ event.httpMethod # "OPTIONS" /\ ValidationFailure)
          => /\ Responded
             /\ resp.statusCode = 400
             /\ ~Took("fetch")
             /\ reply = NoReply
    /\ (Responded /\ UpstreamNotOk) => resp.statusCode = 502
    /\ (Responded /\ event.httpMethod # "OPTIONS" /\ resp.statusCode # 200
           /\ ~ValidationFailure /\ ~UpstreamNotOk)
          => resp.statusCode = 500

\* The upstream API answers 400 with a text that says "must be": the handler
\* answers 400, as for a validation failure of its own.
C24_Witness ==
    /\ Responded
    /\ ~ValidationFailure
    /\ UpstreamNotOk
    /\ reply.outcome.status = 400
    /\ Includes(reply.outcome.body.str, "must be")
    /\ Took("fetch")
    /\ resp.statusCode = 400

====
